---- MODULE Spec2Model ----
(***************************************************************************)
(* Model of the session orchestration core of the control-room backend:    *)
(* the Session / SessionLog store (accounts/models.py), the HTTP handlers   *)
(* that mutate a session (accounts/api/views), the post_save observer       *)
(* (accounts/signals.py), the channel-layer groups and the websocket        *)
(* consumers (accounts/consumers.py), and the case-id allocator             *)
(* (accounts/services/case_id_service.py).                                  *)
(***************************************************************************)
EXTENDS Integers, Sequences, FiniteSets, TLC

\* ------------------------------------------------------------------ bounds
MaxSessions == 1        \* sessions created in one run of Spec and SpecAuth
MaxCaseIds  == 2        \* distinct external case identifiers
MaxLog      == 5        \* audit-log entries per session in one run of Spec
MaxAuthLog  == 3        \* audit-log entries per session in one run of SpecAuth
MaxGwSessions == 2      \* sessions created in one run of SpecGateway
MaxGwLog    == 2        \* audit-log entries per session in one run of SpecGateway
MaxMembers  == 2        \* group memberships held at once in SpecGateway, SpecFanout
MaxFanLog   == 3        \* audit-log entries per session in one run of SpecFanout
MaxConcLog  == 5        \* audit-log entries per session in one run of SpecConc
MaxInflight == 2        \* requests running at once in SpecConc
MaxCreates  == 2        \* creations running at once in SpecCreate
MaxCreated  == 3        \* sessions inserted in one run of SpecCreate
MaxPayload  == 1        \* distinct user payload values
MaxTime     == 1        \* distinct timestamps timezone.now() may return
MaxAdminLog == 3        \* audit-log entries per session in one run of SpecAdmin
MaxNavLog   == 6        \* audit-log entries per session in one run of SpecNav
MaxFabricLog == 4       \* audit-log entries per session in one run of SpecFabric
MaxGuestLog == 5        \* audit-log entries per session in one run of SpecGuest

SessionIds == 1..MaxSessions
CaseIds    == 1..MaxCaseIds
Payloads   == 1..MaxPayload
Times      == 1..MaxTime

\* Python's None, for string-valued and for id-valued positions
None   == "None"
NoCase == 0
NoUuid == 0

\* ------------------------------------------------------------------- users
\* django.contrib.auth users: alice and bob are staff agents, carol is an
\* authenticated non-staff account, root is a superuser.
Users == {"alice", "bob", "carol", "root"}
is_staff(u)     == u \in {"alice", "bob", "root"}
is_superuser(u) == u = "root"

STAGE_CHOICES  == {"case_id", "credentials", "secret_key", "kyc", "completed"}
STATUS_CHOICES == {"active", "completed", "failed", "terminated"}

\* The names under which `call' records the accept, reject and user-flow
\* submit endpoints.
AcceptOps == {"AcceptLogin", "AcceptOtp", "AcceptKyc"}
RejectOps == {"RejectLogin", "RejectOtp", "RejectKyc"}
SubmitOps == {"SubmitCredentials", "SubmitSecretKey", "StartKyc", "SubmitKyc"}

\* ------------------------------------------------------- dicts (JSONField)
\* A Python dict is a function whose domain is its key set.
EmptyDict == [k \in {} |-> None]
DictGet(d, k, default) == IF k \in DOMAIN d THEN d[k] ELSE default
DictPut(d, k, v) == [x \in (DOMAIN d) \cup {k} |-> IF x = k THEN v ELSE d[x]]

\* current_submission.get('stage')
submission_stage(user_data) ==
    DictGet(DictGet(user_data, "current_submission", EmptyDict), "stage", None)

\* ----------------------------------------------------------- channel groups
ControlRoom     == [kind |-> "control_room", agent |-> None, uuid |-> NoUuid]
AgentGroup(u)   == [kind |-> "agent", agent |-> u, uuid |-> NoUuid]
SessionGroup(s) == [kind |-> "session", agent |-> None, uuid |-> s]

Event(g, type, s, what) == [group |-> g, type |-> type, uuid |-> s, what |-> what]
LogEntry(type, msg)     == [log_type |-> type, message |-> msg]

VARIABLES
    sessions,   \* Session table: uuid -> row, domain = existing sessions
    logs,       \* SessionLog table: uuid -> sequence of entries (append order)
    nextUuid,   \* number of uuids handed out so far
    tokens,     \* guest tokens issued: set of session_uuid claims
    members,    \* channel-layer groups: set of [user, token, group]
    epoch,      \* requests running step by step, and the table they started from
    call,       \* the last request: operation, caller, session or case named
    published,  \* group_send calls made by the last operation, in order
    resp        \* HTTP status, or websocket close code, of the last operation

vars == <<sessions, logs, nextUuid, tokens, members, epoch, call, published, resp>>

\* A request: the authenticated user (None for AnonymousUser), the
\* session_uuid claim of the guest token presented (NoUuid for none), and the
\* uuid or case id named.
CallAs(op, actor, token, target) ==
    [op |-> op, actor |-> actor, token |-> token, target |-> target]
Call(op, actor, target) == CallAs(op, actor, NoUuid, target)

NoEpoch == [base |-> EmptyDict, reqs |-> << >>]

Exists(s) == s \in DOMAIN sessions

\* Session.objects.filter(external_case_id=c[, status='active'])
ByCaseId(c)       == {s \in DOMAIN sessions : sessions[s].external_case_id = c}
ActiveByCaseId(c) == {s \in ByCaseId(c) : sessions[s].status = "active"}

\* ------------------------------------------------------------ the observer
\* signals.broadcast_session_save: publishes unless the instance carries
\* _broadcasted_by_viewset.
broadcast_session_save(row, uuid, created, flagged) ==
    IF flagged THEN << >>
    ELSE LET ev == IF created THEN "session_created" ELSE "session_updated"
         IN  << Event(ControlRoom, "broadcast_message", uuid, ev),
                Event(AgentGroup(row.agent), "broadcast_message", uuid, ev) >>

\* ------------------------------------------------------------ store writes
\* Model.save(): UPDATE of every column, or of update_fields only.
AllFields == {"external_case_id", "agent", "stage", "status", "user_online",
              "notes", "user_data"}
SaveRow(old, new, fields) == [f \in DOMAIN old |-> IF f \in fields THEN new[f] ELSE old[f]]

\* One handler's committed effect on session s: row written, log entries
\* appended, group_send calls made, status returned.
Commit(s, new, fields, entries, events, code) ==
    /\ sessions'  = [sessions EXCEPT ![s] = SaveRow(@, new, fields)]
    /\ logs'      = [logs EXCEPT ![s] = @ \o entries]
    /\ published' = events
    /\ resp'      = code

\* A refused call: nothing written, nothing published.
Refuse(code) ==
    /\ resp' = code
    /\ published' = << >>
    /\ UNCHANGED <<sessions, logs>>

Init ==
    /\ sessions  = EmptyDict
    /\ logs      = EmptyDict
    /\ nextUuid  = 0
    /\ tokens    = {}
    /\ members   = {}
    /\ epoch     = NoEpoch
    /\ call      = Call(None, None, 0)
    /\ published = << >>
    /\ resp      = 0

\* ------------------------------------------------------- handler outcomes
\* What one handler run decides from the Session instance it loaded: the
\* status returned, the instance as saved, the columns the save writes
\* ({} when the handler returns before saving), whether the instance carries
\* _broadcasted_by_viewset when saved, the SessionLog rows created and the
\* group_send calls made after the save.
Outcome(code, row, fields, flagged, entries, events) ==
    [code |-> code, row |-> row, fields |-> fields, flagged |-> flagged,
     entries |-> entries, events |-> events]
Refused(code, row) == Outcome(code, row, {}, TRUE, << >>, << >>)

\* The accept / reject permission check written with is_staff, as the
\* control views write it.
IsOwnerOrSuperuser_Staff(row, actor) == is_staff(actor) \/ row.agent = actor

\* The permission check of the accept / reject views.
IsOwnerOrSuperuser(row, actor) == is_superuser(actor) \/ row.agent = actor

\* The permission check of navigate / mark-unsuccessful / force-complete.
IsOwnerOrStaff(row, actor) == is_staff(actor) \/ row.agent = actor

\* user_data after an accept that leaves the submission in place.
WithVerified_KeepsSubmission(user_data, stage, verified) ==
    DictPut(user_data, "verified_data",
            DictPut(DictGet(user_data, "verified_data", EmptyDict), stage, verified))

\* user_data after an accept: verified_data[stage] set, submission cleared.
WithVerified(user_data, stage, verified) ==
    LET vd == DictGet(user_data, "verified_data", EmptyDict)
    IN  DictPut(DictPut(user_data, "verified_data", DictPut(vd, stage, verified)),
                "current_submission", EmptyDict)

AcceptEvents(s, stage) ==
    << Event(ControlRoom, "verified_data", s, stage),
       Event(SessionGroup(s), "user_command", s, "accept") >>

\* AcceptLoginView.post
AcceptLoginView(row, s, actor, t) ==
    IF ~IsOwnerOrSuperuser(row, actor) THEN Refused(403, row)
    ELSE IF submission_stage(row.user_data) # "credentials" THEN Refused(400, row)
    ELSE LET data == row.user_data["current_submission"].data
             verified == [username    |-> DictGet(data, "username", None),
                          password    |-> DictGet(data, "password", None),
                          verified_at |-> t,
                          verified_by |-> actor]
         IN  Outcome(200,
                     [row EXCEPT !.stage = "secret_key",
                                 !.user_data = WithVerified(@, "credentials", verified)],
                     AllFields, TRUE,
                     << LogEntry("agent_action", "Agent accepted login credentials") >>,
                     AcceptEvents(s, "credentials"))

\* AcceptOTPView.post testing session.stage where the code tests
\* current_submission.stage.
AcceptOTPView_SessionStage(row, s, actor, t) ==
    IF ~IsOwnerOrSuperuser(row, actor) THEN Refused(403, row)
    ELSE IF row.stage # "secret_key" THEN Refused(400, row)
    ELSE LET data == DictGet(DictGet(row.user_data, "current_submission", EmptyDict),
                             "data", EmptyDict)
             verified == [secret_key  |-> DictGet(data, "secret_key", None),
                          verified_at |-> t,
                          verified_by |-> actor]
         IN  Outcome(200,
                     [row EXCEPT !.stage = "kyc",
                                 !.user_data = WithVerified(@, "secret_key", verified)],
                     AllFields, TRUE,
                     << LogEntry("agent_action", "Agent accepted secret key") >>,
                     AcceptEvents(s, "secret_key"))

\* AcceptOTPView.post
AcceptOTPView(row, s, actor, t) ==
    IF ~IsOwnerOrSuperuser(row, actor) THEN Refused(403, row)
    ELSE IF submission_stage(row.user_data) # "secret_key" THEN Refused(400, row)
    ELSE LET data == row.user_data["current_submission"].data
             verified == [secret_key  |-> DictGet(data, "secret_key", None),
                          verified_at |-> t,
                          verified_by |-> actor]
         IN  Outcome(200,
                     [row EXCEPT !.stage = "kyc",
                                 !.user_data = WithVerified(@, "secret_key", verified)],
                     AllFields, TRUE,
                     << LogEntry("agent_action", "Agent accepted secret key") >>,
                     AcceptEvents(s, "secret_key"))

\* AcceptKYCView.post
AcceptKYCView(row, s, actor, t) ==
    IF ~IsOwnerOrSuperuser(row, actor) THEN Refused(403, row)
    ELSE IF submission_stage(row.user_data) # "kyc" THEN Refused(400, row)
    ELSE LET verified == [status      |-> "verified",
                          verified_at |-> t,
                          verified_by |-> actor]
         IN  Outcome(200,
                     [row EXCEPT !.stage = "completed",
                                 !.status = "completed",
                                 !.user_data = WithVerified(@, "kyc", verified)],
                     AllFields, TRUE,
                     << LogEntry("agent_action", "Agent accepted KYC and completed session") >>,
                     AcceptEvents(s, "kyc"))

\* A reject that files the rejected submission under verified_data, as the
\* accept views do, before clearing it.
RejectOutcome_Verifies(row, s, actor, message) ==
    IF ~IsOwnerOrSuperuser(row, actor) THEN Refused(403, row)
    ELSE LET staged == submission_stage(row.user_data)
             kept   == IF staged = None
                       THEN DictPut(row.user_data, "current_submission", EmptyDict)
                       ELSE WithVerified(row.user_data, staged,
                                         row.user_data["current_submission"].data)
         IN  Outcome(200, [row EXCEPT !.user_data = kept],
                     AllFields, TRUE,
                     << LogEntry("agent_action", message) >>,
                     << Event(SessionGroup(s), "user_command", s, "reject") >>)

\* The body shared by RejectLoginView / RejectOTPView / RejectKYCView.post:
\* clear current_submission, save, log, tell the user to retry.
RejectOutcome(row, s, actor, message) ==
    IF ~IsOwnerOrSuperuser(row, actor) THEN Refused(403, row)
    ELSE Outcome(200,
                 [row EXCEPT !.user_data = DictPut(@, "current_submission", EmptyDict)],
                 AllFields, TRUE,
                 << LogEntry("agent_action", message) >>,
                 << Event(SessionGroup(s), "user_command", s, "reject") >>)

RejectLoginView(row, s, actor) == RejectOutcome(row, s, actor, "Agent rejected login credentials")
RejectOTPView(row, s, actor)   == RejectOutcome(row, s, actor, "Agent rejected secret key")
RejectKYCView(row, s, actor)   == RejectOutcome(row, s, actor, "Agent rejected KYC")

\* ------------------------------------------------- control_views.py
\* VALID_STAGE_TRANSITIONS with 'completed' given the targets every other
\* stage has.
VALID_STAGE_TRANSITIONS_Open == [st \in STAGE_CHOICES |-> STAGE_CHOICES]

VALID_STAGE_TRANSITIONS ==
    [st \in STAGE_CHOICES |-> IF st = "completed" THEN {} ELSE STAGE_CHOICES]

DATA_CLEAR_MODES == {"submission", "all", "none"}

\* NavigateSessionSerializer: clear_data is optional and defaults to
\* 'submission'.
NavigateSessionSerializer(clear_data) ==
    IF clear_data = None THEN "submission" ELSE clear_data

ControlEvents(s, command, message) ==
    << Event(SessionGroup(s), "user_command", s, command),
       Event(ControlRoom, "control_message", s, message) >>

\* NavigateSessionView.post with clear_data = submission emptying the
\* whole bag.
NavigateSessionView_ClearsAll(row, s, actor, target_stage, clear_data) ==
    IF ~IsOwnerOrStaff(row, actor) THEN Refused(403, row)
    ELSE IF row.status = "completed" THEN Refused(400, row)
    ELSE IF row.status # "active" THEN Refused(400, row)
    ELSE IF target_stage \notin VALID_STAGE_TRANSITIONS[row.stage] THEN Refused(400, row)
    ELSE LET user_data == IF clear_data \in {"all", "submission"} THEN EmptyDict
                          ELSE row.user_data
         IN  Outcome(200,
                     [row EXCEPT !.stage = target_stage,
                                 !.status = IF target_stage = "completed" THEN "completed" ELSE @,
                                 !.user_data = user_data],
                     AllFields, TRUE,
                     << LogEntry("agent_action", "Session navigated") >>,
                     ControlEvents(s, "navigate", "navigated"))

\* NavigateSessionView.post
NavigateSessionView(row, s, actor, target_stage, clear_data) ==
    IF ~IsOwnerOrStaff(row, actor) THEN Refused(403, row)
    ELSE IF row.status = "completed" THEN Refused(400, row)
    ELSE IF row.status # "active" THEN Refused(400, row)
    ELSE IF target_stage \notin VALID_STAGE_TRANSITIONS[row.stage] THEN Refused(400, row)
    ELSE LET user_data == IF clear_data = "all" THEN EmptyDict
                          ELSE IF clear_data = "submission"
                               THEN DictPut(row.user_data, "current_submission", EmptyDict)
                               ELSE row.user_data
         IN  Outcome(200,
                     [row EXCEPT !.stage = target_stage,
                                 !.status = IF target_stage = "completed" THEN "completed" ELSE @,
                                 !.user_data = user_data],
                     AllFields, TRUE,
                     << LogEntry("agent_action", "Session navigated") >>,
                     ControlEvents(s, "navigate", "navigated"))

\* MarkUnsuccessfulView.post
MarkUnsuccessfulView(row, s, actor, t) ==
    IF ~IsOwnerOrStaff(row, actor) THEN Refused(403, row)
    ELSE IF row.status # "active" THEN Refused(400, row)
    ELSE LET result == [status            |-> "unsuccessful",
                        marked_by         |-> actor,
                        marked_at         |-> t,
                        stage_when_failed |-> row.stage]
         IN  Outcome(200,
                     [row EXCEPT !.stage = "completed",
                                 !.status = "failed",
                                 !.user_data = DictPut(@, "verification_result", result)],
                     AllFields, TRUE,
                     << LogEntry("agent_action", "Session marked as unsuccessful") >>,
                     ControlEvents(s, "verification_failed", "marked as unsuccessful"))

\* ForceCompleteView.post made to insist on verified kyc data
ForceCompleteView_NeedsKyc(row, s, actor, t) ==
    IF ~IsOwnerOrStaff(row, actor) THEN Refused(403, row)
    ELSE IF row.status # "active" THEN Refused(400, row)
    ELSE IF "kyc" \notin DOMAIN DictGet(row.user_data, "verified_data", EmptyDict)
         THEN Refused(400, row)
    ELSE Outcome(200,
                 [row EXCEPT !.stage = "completed",
                             !.status = "completed",
                             !.user_data = DictPut(@, "completion_record",
                                                   [type                 |-> "force_completed",
                                                    completed_by         |-> actor,
                                                    completed_at         |-> t,
                                                    stage_when_completed |-> row.stage])],
                 AllFields, TRUE,
                 << LogEntry("agent_action", "Session force-completed") >>,
                 ControlEvents(s, "verification_completed", "force-completed"))

\* ForceCompleteView.post
ForceCompleteView(row, s, actor, t) ==
    IF ~IsOwnerOrStaff(row, actor) THEN Refused(403, row)
    ELSE IF row.status # "active" THEN Refused(400, row)
    ELSE LET record == [type                 |-> "force_completed",
                        completed_by         |-> actor,
                        completed_at         |-> t,
                        stage_when_completed |-> row.stage]
         IN  Outcome(200,
                     [row EXCEPT !.stage = "completed",
                                 !.status = "completed",
                                 !.user_data = DictPut(@, "completion_record", record)],
                     AllFields, TRUE,
                     << LogEntry("agent_action", "Session force-completed") >>,
                     ControlEvents(s, "verification_completed", "force-completed"))

\* ------------------------------------------------- session_views.py
\* What SessionViewSet lets the actor reach with get_object(): permission
\* classes IsAuthenticated + IsStaffUser, then the queryset of get_queryset
\* (all sessions for a superuser, the actor's own otherwise).
ViewSetAccess(row, actor) ==
    IF ~is_staff(actor) THEN 403
    ELSE IF ~is_superuser(actor) /\ row.agent # actor THEN 404
    ELSE 200

\* SessionViewSet.end
SessionViewSet_end(row, s, actor) ==
    IF ViewSetAccess(row, actor) # 200 THEN Refused(ViewSetAccess(row, actor), row)
    ELSE Outcome(200,
                 [row EXCEPT !.status = "terminated"],
                 AllFields, TRUE,
                 << LogEntry("agent_action", "Session ended by agent") >>,
                 ControlEvents(s, "session_ended", "terminated"))

\* SessionViewSet.save_notes
SessionViewSet_save_notes(row, s, actor, notes) ==
    IF ViewSetAccess(row, actor) # 200 THEN Refused(ViewSetAccess(row, actor), row)
    ELSE Outcome(200,
                 [row EXCEPT !.notes = notes],
                 AllFields, TRUE,
                 << LogEntry("agent_action", "Agent updated notes") >>,
                 << >>)

\* ModelSerializer.update: every validated field is set on the instance.
UpdateRow(row, data) ==
    [f \in DOMAIN row |-> IF f \in DOMAIN data THEN data[f] ELSE row[f]]
DictOnly(d, keys) == [k \in (DOMAIN d) \cap keys |-> d[k]]
DictDel(d, k) == [x \in (DOMAIN d) \ {k} |-> d[x]]

\* WebSocketBroadcastMixin._broadcast
MixinBroadcast(row, s, event) ==
    << Event(ControlRoom, "broadcast_message", s, event),
       Event(AgentGroup(row.agent), "broadcast_message", s, event) >>

\* signals.broadcast_session_delete
broadcast_session_delete(row, uuid, flagged) ==
    IF flagged THEN << >>
    ELSE << Event(ControlRoom, "broadcast_message", uuid, "session_deleted") >>

\* The writable fields of SessionUpdateSerializer (PATCH) and of
\* SessionSerializer (PUT).
SessionUpdateSerializer == {"notes", "stage", "status"}
SessionSerializer ==
    {"external_case_id", "agent", "stage", "status", "user_online", "notes", "user_data"}

\* SessionViewSet.update / partial_update: get_object(), the serializer of
\* get_serializer_class, then WebSocketBroadcastMixin.perform_update, which
\* saves first and sets _broadcasted_by_viewset afterwards.
SessionViewSet_update(row, s, actor, partial, data) ==
    IF ViewSetAccess(row, actor) # 200 THEN Refused(ViewSetAccess(row, actor), row)
    ELSE IF ~partial /\ "agent" \notin DOMAIN data THEN Refused(400, row)
    ELSE LET validated == DictOnly(data, IF partial THEN SessionUpdateSerializer
                                                  ELSE SessionSerializer)
             instance  == UpdateRow(row, validated)
         IN  Outcome(200, instance, AllFields, FALSE, << >>,
                     MixinBroadcast(instance, s, "session_updated"))

\* ------------------------------------------------- user_flow_views.py
UserEvents(row, s, status) ==
    << Event(ControlRoom, "user_status_update", s, status),
       Event(AgentGroup(row.agent), "user_status_update", s, status) >>

Submission(stage, data) == [stage |-> stage, data |-> data]

\* The body shared by the four submit views once the serializer has
\* validated the case id: write current_submission, save, log, notify.
SubmitOutcome(row, s, stage, data, fields, log_type, message, status) ==
    Outcome(200,
            [row EXCEPT !.user_data = DictPut(@, "current_submission", Submission(stage, data))],
            fields, TRUE,
            << LogEntry(log_type, message) >>,
            UserEvents(row, s, status))

\* SubmitCredentialsSerializer.validate_case_id and the three like it:
\* the session found must be at the stage the view serves.
SubmitValid(row, stage) == row.status = "active" /\ row.stage = stage

\* SubmitCredentialsView.post from its own Session.objects.get on
SubmitCredentialsView_save(row, s, p) ==
    SubmitOutcome(row, s, "credentials", [username |-> p, password |-> p],
                  {"user_data"}, "user_input", "User submitted credentials",
                  "credentials_submitted")

\* SubmitCredentialsView.post: serializer.is_valid, then the view
SubmitCredentialsView(row, s, p) ==
    IF ~SubmitValid(row, "credentials") THEN Refused(400, row)
    ELSE SubmitCredentialsView_save(row, s, p)

\* SubmitSecretKeyView.post from its own Session.objects.get on
SubmitSecretKeyView_save(row, s, p) ==
    SubmitOutcome(row, s, "secret_key", [secret_key |-> p],
                  AllFields, "user_input", "User submitted secret key",
                  "secret_key_submitted")

\* SubmitSecretKeyView.post: serializer.is_valid, then the view
SubmitSecretKeyView(row, s, p) ==
    IF ~SubmitValid(row, "secret_key") THEN Refused(400, row)
    ELSE SubmitSecretKeyView_save(row, s, p)

\* UserStartedKYCView.post from its own Session.objects.get on
UserStartedKYCView_save(row, s, t) ==
    SubmitOutcome(row, s, "kyc", [status |-> "started", started_at |-> t],
                  AllFields, "user_activity", "User started KYC process",
                  "kyc_started")

\* UserStartedKYCView.post: serializer.is_valid, then the view
UserStartedKYCView(row, s, t) ==
    IF ~SubmitValid(row, "kyc") THEN Refused(400, row)
    ELSE UserStartedKYCView_save(row, s, t)

\* SubmitKYCView.post from its own Session.objects.get on
SubmitKYCView_save(row, s, t) ==
    SubmitOutcome(row, s, "kyc", [status |-> "submitted", submitted_at |-> t],
                  AllFields, "user_input", "User submitted KYC",
                  "kyc_submitted")

\* SubmitKYCView.post: serializer.is_valid, then the view
SubmitKYCView(row, s, t) ==
    IF ~SubmitValid(row, "kyc") THEN Refused(400, row)
    ELSE SubmitKYCView_save(row, s, t)

\* VerifyCaseIDView.post that marks the user online but leaves the stage
VerifyCaseIDView_KeepsStage(row, s) ==
    IF row.status # "active" THEN Refused(400, row)
    ELSE Outcome(200,
                 [row EXCEPT !.user_online = TRUE],
                 {"user_online", "stage"}, TRUE,
                 << LogEntry("user_connection", "User verified case ID and connected") >>,
                 UserEvents(row, s, "case_id_verified")
                     \o << Event(SessionGroup(s), "session_update", s, "credentials") >>)

\* VerifyCaseIDView.post
VerifyCaseIDView(row, s) ==
    IF row.status # "active" THEN Refused(400, row)
    ELSE Outcome(200,
                 [row EXCEPT !.user_online = TRUE, !.stage = "credentials"],
                 {"user_online", "stage"}, TRUE,
                 << LogEntry("user_connection", "User verified case ID and connected") >>,
                 UserEvents(row, s, "case_id_verified")
                     \o << Event(SessionGroup(s), "session_update", s, "credentials") >>)

\* ------------------------------------------------- case_id_service.py
\* CaseIDService.generate_unique_case_id, run without interference: a
\* candidate that no session uses (found within MAX_RETRIES draws), or,
\* when every draw collided, the unchecked uuid4 fallback.
MAX_RETRIES == 10
generate_unique_case_id(taken) ==
    (CaseIds \ taken) \cup (IF taken # {} THEN CaseIds ELSE {})

TakenCaseIds == {sessions[s].external_case_id : s \in DOMAIN sessions}

\* The unique constraint lifted from Session.external_case_id.
unique_external_case_id_Off(c) == TRUE

\* Session.external_case_id is unique=True: whether an INSERT of c passes.
unique_external_case_id(c) == ByCaseId(c) = {}

\* ------------------------------------------------------------- operations
\* A handler run as one step against the stored row.
Apply(s, out) ==
    IF out.fields = {} THEN Refuse(out.code)
    ELSE Commit(s, out.row, out.fields, out.entries,
                broadcast_session_save(out.row, s, FALSE, out.flagged) \o out.events,
                out.code)

Row(s) == IF Exists(s) THEN sessions[s] ELSE EmptyDict

\* get_object_or_404(Session, uuid=uuid), then the view
OnSession(op, s, actor, out) ==
    /\ call' = Call(op, actor, s)
    /\ IF ~Exists(s) THEN Refuse(404) ELSE Apply(s, out)
    /\ UNCHANGED <<nextUuid, tokens, members, epoch>>

\* A SessionViewSet detail route: the permission classes run first, then
\* get_object() looks the uuid up in get_queryset().
OnViewSet(op, s, actor, out) ==
    /\ call' = Call(op, actor, s)
    /\ IF ~is_staff(actor) THEN Refuse(403)
       ELSE IF ~Exists(s) THEN Refuse(404)
       ELSE Apply(s, out)
    /\ UNCHANGED <<nextUuid, tokens, members, epoch>>

\* Session.objects.get(external_case_id=case_id, status='active')
TheActive(c) == CHOOSE s \in ActiveByCaseId(c) : TRUE

\* SessionViewSet.create with SessionCreateSerializer; gen is the identifier
\* generate_unique_case_id returns when the caller supplies none.
SessionCreate(actor, ext, gen) ==
    /\ call' = Call("SessionCreate", actor, ext)
    /\ UNCHANGED <<tokens, members, epoch>>
    /\ gen \in generate_unique_case_id(TakenCaseIds)
    /\ IF ~is_staff(actor) THEN Refuse(403) /\ UNCHANGED nextUuid
       ELSE IF ext # NoCase /\ ByCaseId(ext) # {} THEN Refuse(400) /\ UNCHANGED nextUuid
       ELSE LET c == IF ext # NoCase THEN ext ELSE gen
            IN  IF ~unique_external_case_id(c)
                THEN Refuse(500) /\ UNCHANGED nextUuid      \* IntegrityError on INSERT
                ELSE LET s   == nextUuid + 1
                         row == [external_case_id |-> c, agent |-> actor,
                                 stage |-> "case_id", status |-> "active",
                                 user_online |-> FALSE, notes |-> "",
                                 user_data |-> EmptyDict]
                     IN  /\ nextUuid' = s
                         /\ sessions' = DictPut(sessions, s, row)
                         /\ logs' = DictPut(logs, s,
                                      << LogEntry("agent_action", "Session started by agent") >>)
                         /\ published' = broadcast_session_save(row, s, TRUE, FALSE)
                         /\ resp' = 201

\* The user-flow views name the session by its case id and run unauthenticated.
OnCase(op, c, out(_, _)) ==
    /\ call' = Call(op, None, c)
    /\ UNCHANGED <<nextUuid, members, epoch>>
    /\ IF ActiveByCaseId(c) = {} THEN Refuse(400)
       ELSE Apply(TheActive(c), out(sessions[TheActive(c)], TheActive(c)))

VerifyCaseID(c) ==
    /\ OnCase("VerifyCaseID", c, VerifyCaseIDView)
    /\ tokens' = IF resp' = 200 THEN tokens \cup {TheActive(c)} ELSE tokens

SubmitCredentials(c, p) ==
    LET view(row, s) == SubmitCredentialsView(row, s, p)
    IN  OnCase("SubmitCredentials", c, view) /\ UNCHANGED tokens
SubmitSecretKey(c, p) ==
    LET view(row, s) == SubmitSecretKeyView(row, s, p)
    IN  OnCase("SubmitSecretKey", c, view) /\ UNCHANGED tokens
StartKyc(c, t) ==
    LET view(row, s) == UserStartedKYCView(row, s, t)
    IN  OnCase("StartKyc", c, view) /\ UNCHANGED tokens
SubmitKyc(c, t) ==
    LET view(row, s) == SubmitKYCView(row, s, t)
    IN  OnCase("SubmitKyc", c, view) /\ UNCHANGED tokens

AcceptLogin(s, actor, t) == OnSession("AcceptLogin", s, actor, AcceptLoginView(Row(s), s, actor, t))
AcceptOtp(s, actor, t)   == OnSession("AcceptOtp", s, actor, AcceptOTPView(Row(s), s, actor, t))
AcceptKyc(s, actor, t)   == OnSession("AcceptKyc", s, actor, AcceptKYCView(Row(s), s, actor, t))
RejectLogin(s, actor)    == OnSession("RejectLogin", s, actor, RejectLoginView(Row(s), s, actor))
RejectOtp(s, actor)      == OnSession("RejectOtp", s, actor, RejectOTPView(Row(s), s, actor))
RejectKyc(s, actor)      == OnSession("RejectKyc", s, actor, RejectKYCView(Row(s), s, actor))
Navigate(s, actor, target, clear) ==
    OnSession("Navigate", s, actor,
              NavigateSessionView(Row(s), s, actor, target, NavigateSessionSerializer(clear)))
MarkUnsuccessful(s, actor, t) ==
    OnSession("MarkUnsuccessful", s, actor, MarkUnsuccessfulView(Row(s), s, actor, t))
ForceComplete(s, actor, t) ==
    OnSession("ForceComplete", s, actor, ForceCompleteView(Row(s), s, actor, t))
EndSession(s, actor) ==
    OnViewSet("EndSession", s, actor, SessionViewSet_end(Row(s), s, actor))

SaveNotes(s, actor, notes) ==
    OnViewSet("SaveNotes", s, actor, SessionViewSet_save_notes(Row(s), s, actor, notes))

\* PATCH (partial) and PUT /api/sessions/{uuid}/
SessionUpdate(s, actor, partial, data) ==
    OnViewSet("SessionUpdate", s, actor,
              SessionViewSet_update(Row(s), s, actor, partial, data))

\* DELETE /api/sessions/{uuid}/: SessionViewSet.perform_destroy creates a
\* log row, the mixin's perform_destroy flags and deletes the instance (the
\* log rows go with it, on_delete=CASCADE) and broadcasts, then the view
\* sends its control_message.
SessionDestroy(s, actor) ==
    /\ call' = Call("SessionDestroy", actor, s)
    /\ UNCHANGED <<nextUuid, tokens, members, epoch>>
    /\ IF ~is_staff(actor) THEN Refuse(403)
       ELSE IF ~Exists(s) THEN Refuse(404)
       ELSE IF ViewSetAccess(sessions[s], actor) # 200
            THEN Refuse(ViewSetAccess(sessions[s], actor))
       ELSE /\ sessions' = DictDel(sessions, s)
            /\ logs' = DictDel(logs, s)
            /\ published' = broadcast_session_delete(sessions[s], s, TRUE)
                              \o MixinBroadcast(sessions[s], s, "session_deleted")
                              \o << Event(ControlRoom, "control_message", s, "deleted") >>
            /\ resp' = 204

\* ------------------------------------------------------------ consumers.py
\* What JWTAuthMiddleware puts in the scope: an authenticated user, or
\* AnonymousUser with the claims of a guest token that was issued, or
\* AnonymousUser alone.
Principals ==
    {<<u, NoUuid>> : u \in Users} \cup {<<None, t>> : t \in tokens \cup {NoUuid}}

Member(user, token, g) == [user |-> user, token |-> token, group |-> g]

\* A websocket call that touches no row and publishes nothing.
WsOnly(code) ==
    /\ resp' = code
    /\ published' = << >>
    /\ UNCHANGED <<sessions, logs>>

\* The group choice of ControlRoomConsumer.connect made on is_staff.
room_group_name_Staff(user) ==
    IF is_staff(user) THEN ControlRoom ELSE AgentGroup(user)

\* The group ControlRoomConsumer.connect joins: the firehose for a
\* superuser, the caller's own channel otherwise.
room_group_name(user) ==
    IF is_superuser(user) THEN ControlRoom ELSE AgentGroup(user)

\* ControlRoomConsumer.connect; joined tells whether group_add returned
\* within its 10 s budget.
ControlConnect(user, token, joined) ==
    /\ call' = CallAs("ControlConnect", user, token, NoUuid)
    /\ UNCHANGED <<nextUuid, tokens, epoch>>
    /\ IF user = None THEN WsOnly(4001) /\ UNCHANGED members
       ELSE IF ~joined THEN WsOnly(4500) /\ UNCHANGED members
       ELSE /\ members' = members \cup {Member(user, token, room_group_name(user))}
            /\ WsOnly(101)

\* ControlRoomConsumer.disconnect of an accepted connection
ControlDisconnect(m) ==
    /\ m \in members
    /\ m.group.kind \in {"control_room", "agent"}
    /\ call' = CallAs("ControlDisconnect", m.user, m.token, NoUuid)
    /\ members' = members \ {m}
    /\ WsOnly(0)
    /\ UNCHANGED <<nextUuid, tokens, epoch>>

\* ControlRoomConsumer.receive on an accepted control connection: the
\* commands redirect_user and terminate_session name a session by uuid and
\* are carried out for whoever sent them; anything else is ignored.
ControlCommands == {"redirect_user", "terminate_session"}
ControlReceive(m, command, x) ==
    /\ m \in members
    /\ m.group.kind \in {"control_room", "agent"}
    /\ call' = CallAs(command, m.user, m.token, x)
    /\ resp' = 0
    /\ UNCHANGED <<nextUuid, tokens, members, epoch>>
    /\ IF command = "redirect_user"
       THEN /\ published' = << Event(SessionGroup(x), "user_command", x, "redirect"),
                               Event(ControlRoom, "control_message", x, "redirected") >>
            /\ sessions' = sessions
            /\ logs' = IF Exists(x)      \* log_session_action
                       THEN [logs EXCEPT ![x] = Append(@,
                                LogEntry("agent_action", "Agent redirected user"))]
                       ELSE logs
       ELSE IF command = "terminate_session"
       THEN LET ended == << Event(SessionGroup(x), "user_command", x, "session_ended") >>
            IN  IF Exists(x)              \* terminate_session
                THEN LET row == [sessions[x] EXCEPT !.status = "terminated"]
                     IN  /\ sessions' = [sessions EXCEPT ![x] = row]
                         /\ logs' = [logs EXCEPT ![x] = Append(@,
                                LogEntry("agent_action", "Session terminated via WebSocket"))]
                         /\ published' = broadcast_session_save(row, x, FALSE, TRUE) \o ended
                ELSE /\ published' = ended
                     /\ UNCHANGED <<sessions, logs>>
       ELSE /\ published' = << >>
            /\ UNCHANGED <<sessions, logs>>

verify_session_exists(x) ==
    Exists(x) /\ sessions[x].status \in {"active", "completed"}
verify_agent_ownership(user, x) == Exists(x) /\ sessions[x].agent = user

\* The AUTHORIZATION CHECK admitting every guest token.
is_authorized_AnyGuest(user, token, x) ==
    IF user # None THEN is_superuser(user) \/ verify_agent_ownership(user, x)
    ELSE token # NoUuid

\* The AUTHORIZATION CHECK of SessionConsumer.connect
is_authorized(user, token, x) ==
    IF user # None THEN is_superuser(user) \/ verify_agent_ownership(user, x)
    ELSE IF token # NoUuid THEN token = x
    ELSE FALSE

\* SessionConsumer.update_user_connection_status followed by the
\* group_send calls of its caller: the row is saved without
\* _broadcasted_by_viewset.
ConnectionStatus(x, is_connected, events) ==
    IF ~Exists(x)
    THEN /\ published' = events
         /\ UNCHANGED <<sessions, logs>>
    ELSE LET row == [sessions[x] EXCEPT !.user_online = is_connected]
         IN  /\ sessions' = [sessions EXCEPT ![x] = row]
             /\ logs' = [logs EXCEPT ![x] = Append(@,
                            LogEntry("user_connection",
                                     IF is_connected THEN "User connected"
                                     ELSE "User disconnected"))]
             /\ published' = broadcast_session_save(row, x, FALSE, FALSE) \o events

\* SessionConsumer.connect
SessionConsumer_connect(m, user, token, x) ==
    /\ call' = CallAs("SessionConnect", user, token, x)
    /\ UNCHANGED <<nextUuid, tokens, epoch>>
    /\ IF ~verify_session_exists(x) THEN WsOnly(1000) /\ UNCHANGED members
       ELSE IF ~is_authorized(user, token, x) THEN WsOnly(4003) /\ UNCHANGED members
       ELSE /\ members' = members \cup {m}
            /\ resp' = 101
            /\ IF token # NoUuid
               THEN ConnectionStatus(x, TRUE,
                        << Event(ControlRoom, "user_status_update", x, "connected"),
                           Event(AgentGroup(sessions[x].agent), "user_status_update",
                                 x, "connected") >>)
               ELSE published' = << >> /\ UNCHANGED <<sessions, logs>>

\* A connection of a principal, known by who it is ...
SessionConnect(user, token, x) ==
    SessionConsumer_connect(Member(user, token, SessionGroup(x)), user, token, x)

\* ... and a connection known by its channel_name as well: each socket is a
\* consumer instance of its own, and group_add / group_discard take the
\* channel_name, so one guest may hold several at a time.
SessionSocket(channel_name, token, x) ==
    /\ \A m \in members : "channel_name" \in DOMAIN m => m.channel_name # channel_name
    /\ SessionConsumer_connect(
        [user |-> None, token |-> token, group |-> SessionGroup(x),
         channel_name |-> channel_name], None, token, x)

\* SessionConsumer.disconnect of an accepted connection
SessionDisconnect(m) ==
    /\ m \in members
    /\ m.group.kind = "session"
    /\ call' = CallAs("SessionDisconnect", m.user, m.token, m.group.uuid)
    /\ members' = members \ {m}
    /\ resp' = 0
    /\ ConnectionStatus(m.group.uuid, FALSE,
            << Event(ControlRoom, "user_status_update", m.group.uuid, "disconnected") >>)
    /\ UNCHANGED <<nextUuid, tokens, epoch>>

\* SessionConsumer.disconnect of the connection that connect has just closed
\* without accepting it: room_group_name is set on connect's first line and
\* the handler does not tell a refused connection from an accepted one.
SessionDisconnectRefused(x) ==
    /\ call.op = "SessionConnect" /\ call.target = x
    /\ resp \in {1000, 4003}
    /\ call' = CallAs("SessionDisconnect", call.actor, call.token, x)
    /\ resp' = 0
    /\ ConnectionStatus(x, FALSE,
            << Event(ControlRoom, "user_status_update", x, "disconnected") >>)
    /\ UNCHANGED <<nextUuid, tokens, members, epoch>>

\* ------------------------------------------------ the channel layer down
\* group_send calls that raised (the channel layer is unreachable).
Raised(events) ==
    [i \in DOMAIN events |->
        [group |-> events[i].group, type |-> events[i].type, uuid |-> events[i].uuid,
         what |-> events[i].what, raised |-> TRUE]]
HasRaised(events) == \E i \in DOMAIN events : "raised" \in DOMAIN events[i]

\* The handler around a group_send that raises, with the except clause
\* re-raising: the request ends in a 500.
group_send_except_Reraises(code) == 500

\* The handler around a group_send that raises: every call sits in
\* try: ... except Exception as e: logger.warning(...), after which the
\* handler goes on to the response it was going to return.
group_send_except(code) == code

\* The group_send calls of the operation just run raise.  In every handler
\* they come after the save and the SessionLog row (in the post_save and
\* post_delete receivers, after the write itself), so the rows are as the
\* operation left them.
group_send_raises ==
    /\ published # << >>
    /\ ~HasRaised(published)
    /\ published' = Raised(published)
    /\ resp' = group_send_except(resp)
    /\ UNCHANGED <<sessions, logs, nextUuid, tokens, members, epoch, call>>

\* ------------------------------------------------ requests, step by step
\* The handlers run under no transaction and take no row lock: a request
\* reads the row with one query and writes it back with a later one, and
\* other requests may run in between.  A running request is a record: what
\* was asked, how far it got (pc) and what it holds in memory (uuid, out).
Req(op, actor, target, arg, pc, uuid, out) ==
    [op |-> op, actor |-> actor, target |-> target, arg |-> arg, pc |-> pc,
     uuid |-> uuid, out |-> out, tries |-> 0]
NoOutcome == Refused(0, EmptyDict)

Running == {i \in DOMAIN epoch.reqs : epoch.reqs[i].pc \notin {"done", "failed"}}

\* A request starts: the first of an epoch remembers the table it found.
Begin(req, limit) ==
    /\ Len(epoch.reqs) < limit
    /\ epoch' = IF epoch.reqs = << >>
                THEN [base |-> sessions, reqs |-> << req >>]
                ELSE [epoch EXCEPT !.reqs = Append(@, req)]

\* Request i ends; the epoch ends with the last request running.
Finish(i, pc) ==
    epoch' = IF Running = {i} THEN NoEpoch
             ELSE [epoch EXCEPT !.reqs[i] = [@ EXCEPT !.pc = pc, !.out = NoOutcome,
                                                      !.tries = 0]]

\* A request answered without a write.
Answer(op, actor, target, code) ==
    /\ call' = Call(op, actor, target)
    /\ Refuse(code)

AcceptView(op, row, s, actor, t) ==
    CASE op = "AcceptLogin" -> AcceptLoginView(row, s, actor, t)
      [] op = "AcceptOtp"   -> AcceptOTPView(row, s, actor, t)
      [] op = "AcceptKyc"   -> AcceptKYCView(row, s, actor, t)

\* The stage each submit serializer demands, and each submit view's body.
SubmitStage(op) ==
    CASE op = "SubmitCredentials" -> "credentials"
      [] op = "SubmitSecretKey"   -> "secret_key"
      [] op \in {"StartKyc", "SubmitKyc"} -> "kyc"
SubmitView_save(op, row, s, arg) ==
    CASE op = "SubmitCredentials" -> SubmitCredentialsView_save(row, s, arg)
      [] op = "SubmitSecretKey"   -> SubmitSecretKeyView_save(row, s, arg)
      [] op = "StartKyc"          -> UserStartedKYCView_save(row, s, arg)
      [] op = "SubmitKyc"         -> SubmitKYCView_save(row, s, arg)

\* An accept view up to its last check: get_object_or_404, the permission
\* check and the stage check, all on the instance just loaded.
AcceptRead(op, s, actor, t) ==
    /\ UNCHANGED <<nextUuid, tokens, members>>
    /\ IF ~Exists(s) THEN Answer(op, actor, s, 404) /\ UNCHANGED epoch
       ELSE LET out == AcceptView(op, sessions[s], s, actor, t)
            IN  IF out.fields = {}
                THEN Answer(op, actor, s, out.code) /\ UNCHANGED epoch
                ELSE /\ Begin(Req(op, actor, s, t, "loaded", s, out), MaxInflight)
                     /\ UNCHANGED <<sessions, logs, call, published, resp>>

\* A request's session.save() of the instance it loaded, with what follows
\* it: the SessionLog row and the group_send calls.
Write(i) ==
    LET r == epoch.reqs[i]
    IN  /\ r.pc = "loaded"
        /\ call' = Call(r.op, r.actor, r.target)
        /\ Commit(r.uuid, r.out.row, r.out.fields, r.out.entries,
                  broadcast_session_save(r.out.row, r.uuid, FALSE, r.out.flagged)
                      \o r.out.events,
                  r.out.code)
        /\ Finish(i, "done")
        /\ UNCHANGED <<nextUuid, tokens, members>>

AcceptWrite(i) ==
    /\ i \in DOMAIN epoch.reqs
    /\ epoch.reqs[i].op \in AcceptOps
    /\ Write(i)

\* The two writes of an accept view taken one at a time: session.save()
\* commits on its own (autocommit, no transaction.atomic around the view) ...
AcceptSave(i) ==
    /\ i \in DOMAIN epoch.reqs
    /\ LET r == epoch.reqs[i]
       IN  /\ r.op \in AcceptOps
           /\ r.pc = "loaded"
           /\ sessions' = [sessions EXCEPT ![r.uuid] = SaveRow(@, r.out.row, r.out.fields)]
           /\ epoch' = [epoch EXCEPT !.reqs[i] = [@ EXCEPT !.pc = "saved"]]
    /\ UNCHANGED <<logs, nextUuid, tokens, members, call, published, resp>>

\* ... then SessionLog.objects.create(...) and the group_send calls
AcceptLog(i) ==
    /\ i \in DOMAIN epoch.reqs
    /\ LET r == epoch.reqs[i]
       IN  /\ r.op \in AcceptOps
           /\ r.pc = "saved"
           /\ call' = Call(r.op, r.actor, r.target)
           /\ logs' = [logs EXCEPT ![r.uuid] = @ \o r.out.entries]
           /\ published' = r.out.events
           /\ resp' = r.out.code
           /\ Finish(i, "done")
    /\ UNCHANGED <<sessions, nextUuid, tokens, members>>

\* ... or SessionLog.objects.create(...) raises (the database refuses the
\* INSERT or the connection is lost): the exception is not caught, the
\* request ends in a 500 and the saved row stays.
AcceptLogFails(i) ==
    /\ i \in DOMAIN epoch.reqs
    /\ LET r == epoch.reqs[i]
       IN  /\ r.op \in AcceptOps
           /\ r.pc = "saved"
           /\ Answer(r.op, r.actor, r.target, 500)
           /\ Finish(i, "failed")
    /\ UNCHANGED <<nextUuid, tokens, members>>

\* ControlRoomConsumer.connect up to its group_add: the call is made and the
\* channel layer has yet to answer.
ControlJoin(user, token) ==
    /\ UNCHANGED <<nextUuid, tokens, members>>
    /\ IF user = None
       THEN /\ call' = CallAs("ControlConnect", user, token, NoUuid)
            /\ WsOnly(4001) /\ UNCHANGED epoch
       ELSE /\ Begin(Req("ControlConnect", user, NoUuid, token, "joining", NoUuid, NoOutcome),
                     MaxInflight)
            /\ UNCHANGED <<sessions, logs, call, published, resp>>

\* SessionConsumer.connect up to its group_add
SessionJoin(user, token, x) ==
    /\ UNCHANGED <<nextUuid, tokens, members>>
    /\ IF ~verify_session_exists(x) \/ ~is_authorized(user, token, x)
       THEN /\ call' = CallAs("SessionConnect", user, token, x)
            /\ WsOnly(IF ~verify_session_exists(x) THEN 1000 ELSE 4003)
            /\ UNCHANGED epoch
       ELSE /\ Begin(Req("SessionConnect", user, x, token, "joining", x, NoOutcome),
                     MaxInflight)
            /\ UNCHANGED <<sessions, logs, call, published, resp>>

\* The channel layer answers the group_add of attempt i, and the consumer
\* runs to its accept().
JoinAnswered(i) ==
    /\ i \in DOMAIN epoch.reqs
    /\ LET r == epoch.reqs[i]
       IN  /\ r.pc = "joining"
           /\ call' = CallAs(r.op, r.actor, r.arg, r.target)
           /\ resp' = 101
           /\ IF r.op = "ControlConnect"
              THEN /\ members' = members \cup {Member(r.actor, r.arg, room_group_name(r.actor))}
                   /\ published' = << >>
                   /\ UNCHANGED <<sessions, logs>>
              ELSE /\ members' = members \cup {Member(r.actor, r.arg, SessionGroup(r.target))}
                   /\ IF r.arg # NoUuid
                      THEN ConnectionStatus(r.target, TRUE,
                               << Event(ControlRoom, "user_status_update", r.target, "connected"),
                                  Event(AgentGroup(DictGet(Row(r.target), "agent", None)), "user_status_update",
                                        r.target, "connected") >>)
                      ELSE published' = << >> /\ UNCHANGED <<sessions, logs>>
           /\ Finish(i, "done")
    /\ UNCHANGED <<nextUuid, tokens>>

\* asyncio.wait_for(..., timeout=10.0) around the group_add of
\* ControlRoomConsumer.connect expires: close(code=4500).  The group_add of
\* SessionConsumer.connect is awaited bare.
JoinTimesOut(i) ==
    /\ i \in DOMAIN epoch.reqs
    /\ LET r == epoch.reqs[i]
       IN  /\ r.pc = "joining"
           /\ r.op = "ControlConnect"
           /\ call' = CallAs(r.op, r.actor, r.arg, r.target)
           /\ WsOnly(4500)
           /\ Finish(i, "failed")
    /\ UNCHANGED <<nextUuid, tokens, members>>

\* A submit view's serializer.is_valid(): validate_case_id queries the
\* session and checks its stage.
SubmitValidate(op, c, arg) ==
    /\ UNCHANGED <<nextUuid, tokens, members>>
    /\ IF ActiveByCaseId(c) = {} \/ sessions[TheActive(c)].stage # SubmitStage(op)
       THEN Answer(op, None, c, 400) /\ UNCHANGED epoch
       ELSE /\ Begin(Req(op, None, c, arg, "validated", NoUuid, NoOutcome), MaxInflight)
            /\ UNCHANGED <<sessions, logs, call, published, resp>>

\* The view's own Session.objects.get(external_case_id=.., status='active');
\* DoesNotExist is not caught.
SubmitRead(i) ==
    /\ i \in DOMAIN epoch.reqs
    /\ LET r == epoch.reqs[i]
       IN  /\ r.op \in SubmitOps
           /\ r.pc = "validated"
           /\ IF ActiveByCaseId(r.target) = {}
              THEN Answer(r.op, None, r.target, 500) /\ Finish(i, "failed")
              ELSE LET s == TheActive(r.target)
                   IN  /\ epoch' = [epoch EXCEPT !.reqs[i] =
                                      [@ EXCEPT !.pc = "loaded", !.uuid = s,
                                                !.out = SubmitView_save(r.op, sessions[s], s, r.arg)]]
                       /\ UNCHANGED <<sessions, logs, call, published, resp>>
    /\ UNCHANGED <<nextUuid, tokens, members>>

SubmitWrite(i) ==
    /\ i \in DOMAIN epoch.reqs
    /\ epoch.reqs[i].op \in SubmitOps
    /\ Write(i)

\* SessionViewSet.create up to serializer.is_valid(): the permission
\* classes, then validate_external_case_id.
CreateValidate(actor, ext) ==
    /\ UNCHANGED <<nextUuid, tokens, members>>
    /\ IF ~is_staff(actor) THEN Answer("SessionCreate", actor, ext, 403) /\ UNCHANGED epoch
       ELSE IF ext # NoCase /\ ByCaseId(ext) # {}
            THEN Answer("SessionCreate", actor, ext, 400) /\ UNCHANGED epoch
       ELSE /\ Begin(Req("SessionCreate", actor, ext, ext,
                         IF ext = NoCase THEN "generating" ELSE "ready",
                         NoUuid, NoOutcome), MaxCreates)
            /\ UNCHANGED <<sessions, logs, call, published, resp>>

\* One round of the loop of CaseIDService.generate_unique_case_id with
\* candidate cand, or, after MAX_RETRIES collisions, its uuid4 fallback,
\* which is returned unchecked.
CreateGenerate(i, cand) ==
    /\ i \in DOMAIN epoch.reqs
    /\ LET r == epoch.reqs[i]
       IN  /\ r.op = "SessionCreate"
           /\ r.pc = "generating"
           /\ epoch' = [epoch EXCEPT !.reqs[i] =
                IF r.tries = MAX_RETRIES \/ ByCaseId(cand) = {}
                THEN [@ EXCEPT !.arg = cand, !.pc = "ready"]
                ELSE [@ EXCEPT !.tries = @ + 1]]
    /\ UNCHANGED <<sessions, logs, nextUuid, tokens, members, call, published, resp>>

\* Session.objects.create(...) of SessionCreateSerializer.create: the INSERT
\* under the unique constraint, then the SessionLog row; post_save publishes.
CreateInsert(i) ==
    /\ i \in DOMAIN epoch.reqs
    /\ LET r == epoch.reqs[i]
       IN  /\ r.op = "SessionCreate"
           /\ r.pc = "ready"
           /\ call' = Call("SessionCreate", r.actor, r.target)
           /\ IF ~unique_external_case_id(r.arg)
              THEN Refuse(500) /\ Finish(i, "failed") /\ UNCHANGED nextUuid
              ELSE LET s   == nextUuid + 1
                       row == [external_case_id |-> r.arg, agent |-> r.actor,
                               stage |-> "case_id", status |-> "active",
                               user_online |-> FALSE, notes |-> "",
                               user_data |-> EmptyDict]
                   IN  /\ nextUuid' = s
                       /\ sessions' = DictPut(sessions, s, row)
                       /\ logs' = DictPut(logs, s,
                                    << LogEntry("agent_action", "Session started by agent") >>)
                       /\ published' = broadcast_session_save(row, s, TRUE, FALSE)
                       /\ resp' = 201
                       /\ Finish(i, "done")
    /\ UNCHANGED <<tokens, members>>

\* ---------------------------------------------------------- specifications
\* The bound of a run: sessions created and audit-log entries per session.
Within(maxSessions, maxLog) ==
    /\ nextUuid' <= maxSessions
    /\ \A s \in DOMAIN logs' : Len(logs'[s]) <= maxLog

\* Spec: the HTTP operations, each handler one step, on one session created
\* and handled by its owner.
Owners == {"alice"}
InSpec == Within(MaxSessions, MaxLog)
Next ==
    \/ \E actor \in Owners, ext \in {NoCase, 1}, gen \in {1} :
          SessionCreate(actor, ext, gen) /\ InSpec
    \/ \E c \in CaseIds : VerifyCaseID(c) /\ InSpec
    \/ \E c \in CaseIds, p \in Payloads : SubmitCredentials(c, p) /\ InSpec
    \/ \E c \in CaseIds, p \in Payloads : SubmitSecretKey(c, p) /\ InSpec
    \/ \E c \in CaseIds, t \in Times : StartKyc(c, t) /\ InSpec
    \/ \E c \in CaseIds, t \in Times : SubmitKyc(c, t) /\ InSpec
    \/ \E s \in SessionIds, actor \in Owners, t \in Times : AcceptLogin(s, actor, t) /\ InSpec
    \/ \E s \in SessionIds, actor \in Owners, t \in Times : AcceptOtp(s, actor, t) /\ InSpec
    \/ \E s \in SessionIds, actor \in Owners, t \in Times : AcceptKyc(s, actor, t) /\ InSpec
    \/ \E s \in SessionIds, actor \in Owners : RejectLogin(s, actor) /\ InSpec
    \/ \E s \in SessionIds, actor \in Owners : RejectOtp(s, actor) /\ InSpec
    \/ \E s \in SessionIds, actor \in Owners : RejectKyc(s, actor) /\ InSpec
    \/ \E s \in SessionIds, actor \in Owners, target \in STAGE_CHOICES,
          clear \in DATA_CLEAR_MODES : Navigate(s, actor, target, clear) /\ InSpec
    \/ \E s \in SessionIds, actor \in Owners, t \in Times : MarkUnsuccessful(s, actor, t) /\ InSpec
    \/ \E s \in SessionIds, actor \in Owners, t \in Times : ForceComplete(s, actor, t) /\ InSpec
    \/ \E s \in SessionIds, actor \in Owners : EndSession(s, actor) /\ InSpec
Spec == Init /\ [][Next]_vars

\* SpecAuth: the same operations called by every user, authorized or not.
Creators == {"alice", "carol"}
InAuth == Within(MaxSessions, MaxAuthLog)
NextAuth ==
    \/ \E actor \in Creators, ext \in {NoCase, 1}, gen \in {1} :
          SessionCreate(actor, ext, gen) /\ InAuth
    \/ \E c \in CaseIds : VerifyCaseID(c) /\ InAuth
    \/ \E c \in CaseIds, p \in Payloads : SubmitCredentials(c, p) /\ InAuth
    \/ \E c \in CaseIds, p \in Payloads : SubmitSecretKey(c, p) /\ InAuth
    \/ \E c \in CaseIds, t \in Times : StartKyc(c, t) /\ InAuth
    \/ \E c \in CaseIds, t \in Times : SubmitKyc(c, t) /\ InAuth
    \/ \E s \in SessionIds, actor \in Users, t \in Times : AcceptLogin(s, actor, t) /\ InAuth
    \/ \E s \in SessionIds, actor \in Users, t \in Times : AcceptOtp(s, actor, t) /\ InAuth
    \/ \E s \in SessionIds, actor \in Users, t \in Times : AcceptKyc(s, actor, t) /\ InAuth
    \/ \E s \in SessionIds, actor \in Users : RejectLogin(s, actor) /\ InAuth
    \/ \E s \in SessionIds, actor \in Users : RejectOtp(s, actor) /\ InAuth
    \/ \E s \in SessionIds, actor \in Users : RejectKyc(s, actor) /\ InAuth
    \/ \E s \in SessionIds, actor \in Users, target \in STAGE_CHOICES,
          clear \in DATA_CLEAR_MODES : Navigate(s, actor, target, clear) /\ InAuth
    \/ \E s \in SessionIds, actor \in Users, t \in Times : MarkUnsuccessful(s, actor, t) /\ InAuth
    \/ \E s \in SessionIds, actor \in Users, t \in Times : ForceComplete(s, actor, t) /\ InAuth
    \/ \E s \in SessionIds, actor \in Users : EndSession(s, actor) /\ InAuth
SpecAuth == Init /\ [][NextAuth]_vars

\* SpecGateway: the websocket gateway over two sessions of two agents.
Agents == {"alice", "bob"}
GwSessionIds == 1..MaxGwSessions
InGateway ==
    /\ Within(MaxGwSessions, MaxGwLog)
    /\ Cardinality(members') <= MaxMembers
NextGateway ==
    \/ \E actor \in Agents, gen \in CaseIds :
          SessionCreate(actor, NoCase, gen) /\ InGateway
    \/ \E c \in CaseIds : VerifyCaseID(c) /\ InGateway
    \/ \E s \in GwSessionIds, actor \in Agents : EndSession(s, actor) /\ InGateway
    \/ \E who \in Principals, joined \in BOOLEAN :
          ControlConnect(who[1], who[2], joined) /\ InGateway
    \/ \E m \in members : ControlDisconnect(m) /\ InGateway
    \/ \E who \in Principals, x \in GwSessionIds :
          SessionConnect(who[1], who[2], x) /\ InGateway
    \/ \E m \in members : SessionDisconnect(m) /\ InGateway
    \/ \E x \in GwSessionIds : SessionDisconnectRefused(x) /\ InGateway
SpecGateway == Init /\ [][NextGateway]_vars

\* SpecFanout: every path that publishes about one session -- the session
\* API, the user-flow endpoints and the consumers -- with the session handed
\* between two agents.
UpdateBodies ==
    {DictPut(EmptyDict, "stage", "credentials"), DictPut(EmptyDict, "status", "terminated")}
        \cup {DictPut(EmptyDict, "agent", u) : u \in Agents}
InFanout ==
    /\ Within(MaxSessions, MaxFanLog)
    /\ Cardinality(members') <= MaxMembers
NextFanout ==
    \/ \E actor \in Agents : SessionCreate(actor, NoCase, 1) /\ InFanout
    \/ \E c \in CaseIds : VerifyCaseID(c) /\ InFanout
    \/ \E c \in CaseIds, p \in Payloads : SubmitCredentials(c, p) /\ InFanout
    \/ \E s \in SessionIds, actor \in Users, partial \in BOOLEAN, data \in UpdateBodies :
          SessionUpdate(s, actor, partial, data) /\ InFanout
    \/ \E s \in SessionIds, actor \in Users : SessionDestroy(s, actor) /\ InFanout
    \/ \E who \in Principals, joined \in BOOLEAN :
          ControlConnect(who[1], who[2], joined) /\ InFanout
    \/ \E m \in members : ControlDisconnect(m) /\ InFanout
    \/ \E who \in Principals, x \in SessionIds :
          SessionConnect(who[1], who[2], x) /\ InFanout
    \/ \E m \in members : SessionDisconnect(m) /\ InFanout
    \/ \E x \in SessionIds : SessionDisconnectRefused(x) /\ InFanout
SpecFanout == Init /\ [][NextFanout]_vars

\* SpecAdmin: one session worked on by its owner through every path that
\* writes its status, stage or staged data -- the agent endpoints, the
\* session API (PATCH, PUT, end, save_notes) and the control socket.
AdminBodies ==
    { DictPut(EmptyDict, "status", "active"),
      DictPut(EmptyDict, "stage", "credentials"),
      DictPut(EmptyDict, "stage", "completed"),
      DictPut(DictPut(EmptyDict, "agent", "alice"), "user_data",
              DictPut(EmptyDict, "verified_data",
                      DictPut(EmptyDict, "kyc", [status |-> "verified"]))) }
InAdmin ==
    /\ Within(MaxSessions, MaxAdminLog)
    /\ Cardinality(members') <= MaxMembers
NextAdmin ==
    \/ SessionCreate("alice", NoCase, 1) /\ InAdmin
    \/ \E c \in CaseIds : VerifyCaseID(c) /\ InAdmin
    \/ \E c \in CaseIds, p \in Payloads : SubmitCredentials(c, p) /\ InAdmin
    \/ \E s \in SessionIds, t \in Times : AcceptLogin(s, "alice", t) /\ InAdmin
    \/ \E s \in SessionIds : RejectLogin(s, "alice") /\ InAdmin
    \/ \E s \in SessionIds, target \in STAGE_CHOICES, clear \in DATA_CLEAR_MODES :
          Navigate(s, "alice", target, clear) /\ InAdmin
    \/ \E s \in SessionIds, t \in Times : MarkUnsuccessful(s, "alice", t) /\ InAdmin
    \/ \E s \in SessionIds, t \in Times : ForceComplete(s, "alice", t) /\ InAdmin
    \/ \E s \in SessionIds : EndSession(s, "alice") /\ InAdmin
    \/ \E s \in SessionIds, partial \in BOOLEAN, data \in AdminBodies :
          SessionUpdate(s, "alice", partial, data) /\ InAdmin
    \/ \E s \in SessionIds : SaveNotes(s, "alice", "n") /\ InAdmin
    \/ \E joined \in BOOLEAN : ControlConnect("bob", NoUuid, joined) /\ InAdmin
    \/ \E m \in members, command \in ControlCommands, x \in SessionIds :
          ControlReceive(m, command, x) /\ InAdmin
SpecAdmin == Init /\ [][NextAdmin]_vars

\* SpecNav: the owner moving one session about with navigate and the
\* terminal endpoints, with submissions pending and data verified; the
\* clear_data field of a navigate request may be left out.
ClearInputs == DATA_CLEAR_MODES \cup {None}
InNav == Within(MaxSessions, MaxNavLog)
NextNav ==
    \/ SessionCreate("alice", NoCase, 1) /\ InNav
    \/ \E c \in CaseIds : VerifyCaseID(c) /\ InNav
    \/ \E c \in CaseIds, p \in Payloads : SubmitCredentials(c, p) /\ InNav
    \/ \E c \in CaseIds, p \in Payloads : SubmitSecretKey(c, p) /\ InNav
    \/ \E s \in SessionIds, t \in Times : AcceptLogin(s, "alice", t) /\ InNav
    \/ \E s \in SessionIds, target \in STAGE_CHOICES, clear \in ClearInputs :
          Navigate(s, "alice", target, clear) /\ InNav
    \/ \E s \in SessionIds, t \in Times : MarkUnsuccessful(s, "alice", t) /\ InNav
    \/ \E s \in SessionIds, t \in Times : ForceComplete(s, "alice", t) /\ InNav
    \/ \E s \in SessionIds : EndSession(s, "alice") /\ InNav
SpecNav == Init /\ [][NextNav]_vars

\* SpecConc: accept and submit requests of one session running step by
\* step, two at a time; the session is brought to a stage by atomic calls
\* made while no request is running.
Idle == epoch = NoEpoch
InConc == Within(MaxSessions, MaxConcLog)
NextConc ==
    \/ Idle /\ SessionCreate("alice", NoCase, 1) /\ InConc
    \/ \E c \in CaseIds : Idle /\ VerifyCaseID(c) /\ InConc
    \/ \E s \in SessionIds, target \in STAGE_CHOICES, clear \in DATA_CLEAR_MODES :
          Idle /\ Navigate(s, "alice", target, clear) /\ InConc
    \/ \E op \in AcceptOps, s \in SessionIds, t \in Times :
          AcceptRead(op, s, "alice", t) /\ InConc
    \/ \E i \in 1..MaxInflight : AcceptWrite(i) /\ InConc
    \/ \E op \in SubmitOps, c \in CaseIds, arg \in Payloads :
          SubmitValidate(op, c, arg) /\ InConc
    \/ \E i \in 1..MaxInflight : SubmitRead(i) /\ InConc
    \/ \E i \in 1..MaxInflight : SubmitWrite(i) /\ InConc
SpecConc == Init /\ [][NextConc]_vars

\* SpecCreate: session creations running step by step, with identifiers the
\* callers supply or the allocator draws.
InCreate == Within(MaxCreated, MaxLog)
NextCreate ==
    \/ \E actor \in Agents, ext \in {NoCase} \cup CaseIds :
          CreateValidate(actor, ext) /\ InCreate
    \/ \E i \in 1..MaxCreates, cand \in CaseIds : CreateGenerate(i, cand) /\ InCreate
    \/ \E i \in 1..MaxCreates : CreateInsert(i) /\ InCreate
SpecCreate == Init /\ [][NextCreate]_vars

\* SpecWrites: accept requests of one session with their two writes taken
\* one at a time, the second of which may fail; the user's side runs while
\* no request is running.
InWrites == Within(MaxSessions, MaxLog)
NextWrites ==
    \/ Idle /\ SessionCreate("alice", NoCase, 1) /\ InWrites
    \/ \E c \in CaseIds : Idle /\ VerifyCaseID(c) /\ InWrites
    \/ \E c \in CaseIds, p \in Payloads : Idle /\ SubmitCredentials(c, p) /\ InWrites
    \/ \E c \in CaseIds, p \in Payloads : Idle /\ SubmitSecretKey(c, p) /\ InWrites
    \/ \E op \in AcceptOps, s \in SessionIds, t \in Times :
          AcceptRead(op, s, "alice", t) /\ InWrites
    \/ \E i \in 1..MaxInflight : AcceptSave(i) /\ InWrites
    \/ \E i \in 1..MaxInflight : AcceptLog(i) /\ InWrites
    \/ \E i \in 1..MaxInflight : AcceptLogFails(i) /\ InWrites
SpecWrites == Init /\ [][NextWrites]_vars

\* SpecFabric: the owner's and the user's operations on one session, each of
\* which may find the channel layer down when it publishes.
InFabric == Within(MaxSessions, MaxFabricLog)
NextFabric ==
    \/ SessionCreate("alice", NoCase, 1) /\ InFabric
    \/ \E c \in CaseIds : VerifyCaseID(c) /\ InFabric
    \/ \E c \in CaseIds, p \in Payloads : SubmitCredentials(c, p) /\ InFabric
    \/ \E s \in SessionIds, t \in Times : AcceptLogin(s, "alice", t) /\ InFabric
    \/ \E s \in SessionIds : RejectLogin(s, "alice") /\ InFabric
    \/ \E s \in SessionIds, target \in STAGE_CHOICES, clear \in DATA_CLEAR_MODES :
          Navigate(s, "alice", target, clear) /\ InFabric
    \/ \E s \in SessionIds, t \in Times : MarkUnsuccessful(s, "alice", t) /\ InFabric
    \/ \E s \in SessionIds, t \in Times : ForceComplete(s, "alice", t) /\ InFabric
    \/ \E s \in SessionIds : EndSession(s, "alice") /\ InFabric
    \/ \E s \in SessionIds, partial \in BOOLEAN, data \in AdminBodies :
          SessionUpdate(s, "alice", partial, data) /\ InFabric
    \/ \E s \in SessionIds : SessionDestroy(s, "alice") /\ InFabric
    \/ group_send_raises /\ InFabric
SpecFabric == Init /\ [][NextFabric]_vars

\* SpecGuest: the sockets of one session -- its guest, its owner, another
\* agent and a superuser -- coming and going on the session's channel and on
\* the control channel.
InGuest ==
    /\ Within(MaxSessions, MaxGuestLog)
    /\ Cardinality(members') <= MaxMembers
NextGuest ==
    \/ SessionCreate("alice", NoCase, 1) /\ InGuest
    \/ \E c \in CaseIds : VerifyCaseID(c) /\ InGuest
    \/ \E who \in Principals, joined \in BOOLEAN :
          ControlConnect(who[1], who[2], joined) /\ InGuest
    \/ \E m \in members : ControlDisconnect(m) /\ InGuest
    \/ \E who \in Principals, x \in SessionIds :
          SessionConnect(who[1], who[2], x) /\ InGuest
    \/ \E m \in members : SessionDisconnect(m) /\ InGuest
    \/ \E x \in SessionIds : SessionDisconnectRefused(x) /\ InGuest
SpecGuest == Init /\ [][NextGuest]_vars

\* SpecJoin: connection attempts on both consumers with the channel-join taken
\* as a step of its own, which the channel layer may never answer; the timer
\* of wait_for is fair.
InJoin ==
    /\ Within(MaxSessions, MaxGuestLog)
    /\ Cardinality(members') <= MaxMembers
NextJoin ==
    \/ Idle /\ SessionCreate("alice", NoCase, 1) /\ InJoin
    \/ \E c \in CaseIds : Idle /\ VerifyCaseID(c) /\ InJoin
    \/ \E who \in Principals : ControlJoin(who[1], who[2]) /\ InJoin
    \/ \E who \in Principals, x \in SessionIds : SessionJoin(who[1], who[2], x) /\ InJoin
    \/ \E i \in 1..MaxInflight : JoinAnswered(i) /\ InJoin
    \/ \E i \in 1..MaxInflight : JoinTimesOut(i) /\ InJoin
SpecJoin ==
    /\ Init /\ [][NextJoin]_vars
    /\ \A i \in 1..MaxInflight : WF_vars(JoinTimesOut(i) /\ InJoin)

\* ------------------------------------------------------------ bulk delete
\* POST /api/sessions/bulk-delete/. BulkDeleteSerializer refuses an empty
\* list; the loop runs over the rows of Session.objects.filter(uuid__in=...)
\* and appends one result for each, then one not_found result for each
\* requested uuid that no row carried. The response body is what the
\* handler returns: results, deleted, failed, total.
BulkResult(uuid, status) == [uuid |-> uuid, status |-> status]
\* The loop with the permission check its docstring describes: staff may
\* delete any session.
SessionViewSet_bulk_delete_Staff(actor, uuids) ==
    LET found == uuids \cap DOMAIN sessions
        item(s) == IF ~is_staff(actor) /\ sessions[s].agent # actor
                   THEN BulkResult(s, "permission_denied")
                   ELSE BulkResult(s, "deleted")
        RECURSIVE loop(_)
        loop(todo) ==
            IF todo = {} THEN << >>
            ELSE LET s == CHOOSE x \in todo : \A y \in todo : x <= y
                 IN  << item(s) >> \o loop(todo \ {s})
        RECURSIVE missing(_)
        missing(todo) ==
            IF todo = {} THEN << >>
            ELSE LET s == CHOOSE x \in todo : \A y \in todo : x <= y
                 IN  << BulkResult(s, "not_found") >> \o missing(todo \ {s})
        results == loop(found) \o missing(uuids \ found)
        count(P(_)) == Cardinality({i \in 1..Len(results) : P(results[i])})
        isDeleted(r) == r.status = "deleted"
        isFailed(r)  == r.status # "deleted"
    IN  [results |-> results, deleted |-> count(isDeleted),
         failed |-> count(isFailed), total |-> Cardinality(uuids)]

SessionViewSet_bulk_delete(actor, uuids) ==
    LET found == uuids \cap DOMAIN sessions
        item(s) == IF ~is_superuser(actor) /\ sessions[s].agent # actor
                   THEN BulkResult(s, "permission_denied")
                   ELSE BulkResult(s, "deleted")
        RECURSIVE loop(_)
        loop(todo) ==
            IF todo = {} THEN << >>
            ELSE LET s == CHOOSE x \in todo : \A y \in todo : x <= y
                 IN  << item(s) >> \o loop(todo \ {s})
        RECURSIVE missing(_)
        missing(todo) ==
            IF todo = {} THEN << >>
            ELSE LET s == CHOOSE x \in todo : \A y \in todo : x <= y
                 IN  << BulkResult(s, "not_found") >> \o missing(todo \ {s})
        results == loop(found) \o missing(uuids \ found)
        count(P(_)) == Cardinality({i \in 1..Len(results) : P(results[i])})
        isDeleted(r) == r.status = "deleted"
        isFailed(r)  == r.status # "deleted"
    IN  [results |-> results, deleted |-> count(isDeleted),
         failed |-> count(isFailed), total |-> Cardinality(uuids)]

RECURSIVE BulkDeleteSignals(_, _)
BulkDeleteSignals(results, i) ==
    IF i > Len(results) THEN << >>
    ELSE (IF results[i].status = "deleted"
          THEN broadcast_session_delete(sessions[results[i].uuid], results[i].uuid, FALSE)
          ELSE << >>) \o BulkDeleteSignals(results, i + 1)

BulkDelete(actor, uuids) ==
    /\ call' = Call("BulkDelete", actor, uuids)
    /\ UNCHANGED <<nextUuid, tokens, members, epoch>>
    /\ IF ~is_staff(actor) THEN Refuse(403)
       ELSE IF uuids = {} THEN Refuse(400)
       ELSE LET body == SessionViewSet_bulk_delete(actor, uuids)
                gone == {body.results[i].uuid : i \in
                           {j \in 1..Len(body.results) : body.results[j].status = "deleted"}}
            IN  /\ sessions' = [s \in DOMAIN sessions \ gone |-> sessions[s]]
                /\ logs' = [s \in DOMAIN logs \ gone |-> logs[s]]
                /\ published' = BulkDeleteSignals(body.results, 1)
                /\ resp' = 200

\* Two sessions of different agents, and requests naming any of them and a
\* uuid no session carries.
BulkUuids == 1..(MaxGwSessions + 1)
InBulk == Within(MaxGwSessions, MaxGwLog)
NextBulk ==
    \/ \E actor \in Agents \cup {"root"}, gen \in CaseIds :
          SessionCreate(actor, NoCase, gen) /\ InBulk
    \/ \E c \in CaseIds : VerifyCaseID(c) /\ InBulk
    \/ \E s \in GwSessionIds, actor \in Users : SessionDestroy(s, actor) /\ InBulk
    \/ \E actor \in Users, uuids \in SUBSET BulkUuids : BulkDelete(actor, uuids) /\ InBulk
SpecBulk == Init /\ [][NextBulk]_vars

\* SpecSockets: one session and its guest, who opens and closes session
\* sockets, several at a time.
MaxSockets   == 3
MaxSocketLog == 6
InSockets ==
    /\ Within(MaxSessions, MaxSocketLog)
    /\ Cardinality(members') <= MaxSockets
NextSockets ==
    \/ SessionCreate("alice", NoCase, 1) /\ InSockets
    \/ \E c \in CaseIds : VerifyCaseID(c) /\ InSockets
    \/ \E n \in 1..MaxSockets, t \in tokens, x \in SessionIds :
          SessionSocket(n, t, x) /\ InSockets
    \/ \E m \in members : SessionDisconnect(m) /\ InSockets
SpecSockets == Init /\ [][NextSockets]_vars

\* ------------------------------------------------------------------ claims
TerminalStatuses == {"completed", "failed", "terminated"}
ClientErrors     == 400..499

\* The stage whose submission an accept operation expects, and the stage it
\* advances to.
ExpectedStage(op) ==
    CASE op = "AcceptLogin" -> "credentials"
      [] op = "AcceptOtp"   -> "secret_key"
      [] op = "AcceptKyc"   -> "kyc"
Successor(stage) ==
    CASE stage = "credentials" -> "secret_key"
      [] stage = "secret_key"  -> "kyc"
      [] stage = "kyc"         -> "completed"

\* The sessions the request c names: by uuid, or by external case id for the
\* user-flow operations.
Named(c) ==
    IF c.op \in SubmitOps THEN ByCaseId(c.target)
    ELSE {s \in DOMAIN sessions : s = c.target}

\* The caller may manage the session: its owner, or a superuser.
MayManage(s, actor) == sessions[s].agent = actor \/ is_superuser(actor)

\* C1: once a session's status is completed, failed or terminated, every
\* later Accept*, Reject*, Navigate or Submit* call on it is rejected and
\* leaves its stage and status as they were.
C1_TerminalCallsRejected ==
    [][\A s \in DOMAIN sessions :
          ( /\ sessions[s].status \in TerminalStatuses
            /\ call'.op \in AcceptOps \cup RejectOps \cup SubmitOps \cup {"Navigate"}
            /\ s \in Named(call') )
          => /\ resp' # 200
             /\ sessions'[s].stage  = sessions[s].stage
             /\ sessions'[s].status = sessions[s].status]_vars

\* C2: AcceptLogin, AcceptOtp and AcceptKyc succeed only when the staged
\* submission carries the stage credentials, secret_key and kyc respectively;
\* with any other staged stage, or none, the call ends in a client error and
\* the session row (stage, status, staged data) and its audit log stay as
\* they were.
C2_AcceptNeedsMatchingSubmission ==
    [][\A s \in DOMAIN sessions :
          (call'.op \in AcceptOps /\ call'.target = s)
          => LET staged == submission_stage(sessions[s].user_data)
             IN  /\ resp' = 200 => staged = ExpectedStage(call'.op)
                 /\ staged # ExpectedStage(call'.op)
                    => /\ resp' \in ClientErrors
                       /\ sessions' = sessions
                       /\ logs' = logs]_vars

\* The owner called AcceptOtp while the staged submission was the one left
\* by SubmitCredentials, and was refused.
C2_Witness ==
    \E s \in DOMAIN sessions :
        /\ call = Call("AcceptOtp", sessions[s].agent, s)
        /\ resp = 400
        /\ submission_stage(sessions[s].user_data) = "credentials"
        /\ logs[s][Len(logs[s])].message = "User submitted credentials"

C4_OnlyOwnerOrSuperuserControls ==
    [][\A s \in DOMAIN sessions :
          ( /\ call'.op \in {"Navigate", "MarkUnsuccessful", "ForceComplete", "EndSession"}
            /\ call'.target = s
            /\ ~MayManage(s, call'.actor) )
          => /\ resp' # 200
             /\ sessions' = sessions
             /\ logs' = logs]_vars

\* The row after request r runs alone, as one step, against row.
SerialStep(r, row) ==
    LET out == IF r.op \in AcceptOps
               THEN AcceptView(r.op, row, r.uuid, r.actor, r.arg)
               ELSE IF row.external_case_id # r.target \/ ~SubmitValid(row, SubmitStage(r.op))
                    THEN Refused(400, row)
                    ELSE SubmitView_save(r.op, row, r.uuid, r.arg)
    IN  IF out.fields = {} THEN row ELSE SaveRow(row, out.row, out.fields)

\* C5: when an accept and a submit run concurrently on one session, each a
\* read of the row followed later by a write, the stage and staged data left
\* behind are those of one of the two serial orders: neither request writes
\* back a stale bag over what the other committed in between.
C5_AcceptSubmitSerializable ==
    [][\A i, j \in DOMAIN epoch.reqs :
          ( /\ Len(epoch.reqs) = 2
            /\ epoch.reqs[i].op \in AcceptOps
            /\ epoch.reqs[j].op \in SubmitOps
            /\ epoch.reqs[i].uuid = epoch.reqs[j].uuid
            /\ {epoch.reqs[i].pc, epoch.reqs[j].pc} = {"done", "loaded"}
            /\ epoch' = NoEpoch )
          => LET s    == epoch.reqs[i].uuid
                 a    == epoch.reqs[i]
                 b    == epoch.reqs[j]
                 base == epoch.base[s]
             IN  \E r \in {SerialStep(b, SerialStep(a, base)),
                           SerialStep(a, SerialStep(b, base))} :
                    /\ sessions'[s].stage = r.stage
                    /\ sessions'[s].user_data = r.user_data]_vars

\* C6: every mutation of a session, whichever path performs it, publishes
\* exactly once on each channel it targets and never twice: the post_save /
\* post_delete observer never publishes on top of the primary write path.
C6_OnePublishPerChannel ==
    [][sessions' # sessions
       => \A i, j \in DOMAIN published' :
             published'[i].group = published'[j].group => i = j]_vars

\* The owner of the session an event is about, when the event was published.
OwnerAt(x) ==
    IF x \in DOMAIN sessions' THEN sessions'[x].agent
    ELSE IF x \in DOMAIN sessions THEN sessions[x].agent
    ELSE None

\* The group memberships held by control connections of non-superusers.
OrdinaryControl(ms) ==
    {m \in ms : m.group.kind \in {"control_room", "agent"} /\ ~is_superuser(m.user)}

\* C7: the control connection of a non-superuser is subscribed to
\* agent_{own id} only, every event published on agent_{a} is about a session
\* owned by a, and so no event reaching an ordinary agent's control
\* connection is about another agent's session.
C7_AgentChannelIsolation ==
    [][/\ \A m \in OrdinaryControl(members') : m.group = AgentGroup(m.user)
       /\ \A i \in DOMAIN published' :
             published'[i].group.kind = "agent"
             => OwnerAt(published'[i].uuid) = published'[i].group.agent
       /\ \A m \in OrdinaryControl(members \cup members'), i \in DOMAIN published' :
             published'[i].group = m.group
             => OwnerAt(published'[i].uuid) = m.user]_vars

\* bob's control connection is subscribed, an operation has published about
\* alice's session on agent_alice, and nothing went to bob's channel.
C7_Witness ==
    /\ Member("bob", NoUuid, AgentGroup("bob")) \in members
    /\ \E i \in DOMAIN published :
          /\ published[i].group = AgentGroup("alice")
          /\ published[i].uuid \in DOMAIN sessions
          /\ sessions[published[i].uuid].agent = "alice"
    /\ \A j \in DOMAIN published : published[j].group # AgentGroup("bob")

\* C8: a connect to session X's user channel is accepted only for a guest
\* credential issued for X, for the agent who owns X, or for a superuser;
\* every other caller, and every connect to an unknown session id, is
\* rejected at connect time and is not subscribed to session_X.
C8_SessionChannelAdmission ==
    [][call'.op = "SessionConnect"
       => LET x == call'.target
              entitled ==
                  /\ x \in DOMAIN sessions
                  /\ \/ call'.actor = None /\ call'.token = x
                     \/ call'.actor # None
                        /\ (sessions[x].agent = call'.actor \/ is_superuser(call'.actor))
          IN  /\ resp' = 101 => entitled
              /\ ~entitled => resp' # 101 /\ members' = members]_vars

\* A guest holding the token of session 1 tried session 2, which exists and
\* is active, and was closed with 4003 without joining session_2.
C8_Witness ==
    /\ call = CallAs("SessionConnect", None, 1, 2)
    /\ resp = 4003
    /\ verify_session_exists(2)
    /\ Member(None, 1, SessionGroup(2)) \notin members

\* C9: however many session creations run concurrently, with generated or
\* caller-supplied identifiers, no two sessions in the store share an
\* external case identifier.
C9_UniqueCaseIds ==
    \A s1, s2 \in DOMAIN sessions :
        sessions[s1].external_case_id = sessions[s2].external_case_id => s1 = s2

\* Two creations ran together for the same identifier: one session holds
\* it, the other creation has just ended in an IntegrityError, and a further
\* session exists beside it.
C9_Witness ==
    /\ call.op = "SessionCreate"
    /\ resp = 500
    /\ ByCaseId(call.target) # {}
    /\ Cardinality(DOMAIN sessions) = 2

\* C10: a successful accept for stage S by agent A moves the data of the
\* staged submission into verified_data[S] together with verified_by = A and
\* a verification time, clears the staged submission, leaves the other
\* verified_data entries as they were, and sets stage to the successor of S
\* (credentials -> secret_key -> kyc -> completed, the last with status
\* completed).
C10_AcceptMovesSubmission ==
    [][\A s \in DOMAIN sessions :
          (call'.op \in AcceptOps /\ call'.target = s /\ resp' = 200)
          => LET S    == ExpectedStage(call'.op)
                 data == sessions[s].user_data["current_submission"].data
                 old  == DictGet(sessions[s].user_data, "verified_data", EmptyDict)
                 new  == sessions'[s].user_data["verified_data"]
             IN  /\ S \in DOMAIN new
                 /\ \A k \in DOMAIN data : k \in DOMAIN new[S] /\ new[S][k] = data[k]
                 /\ new[S].verified_by = call'.actor
                 /\ "verified_at" \in DOMAIN new[S]
                 /\ sessions'[s].user_data["current_submission"] = EmptyDict
                 /\ \A k \in DOMAIN old \ {S} : k \in DOMAIN new /\ new[k] = old[k]
                 /\ sessions'[s].stage = Successor(S)
                 /\ S = "kyc" => sessions'[s].status = "completed"]_vars

\* The verified_data entries of a staged-data bag.
verified_data(user_data) == DictGet(user_data, "verified_data", EmptyDict)

\* C11: a successful RejectLogin, RejectOtp or RejectKyc leaves
\* current_submission empty and stage, status and verified_data as they
\* were; and no Submit or Reject call adds a verified_data entry, so a
\* sequence of submits and rejects alone never verifies a stage.
C11_RejectClearsSubmissionOnly ==
    [][\A s \in DOMAIN sessions :
          /\ (call'.op \in RejectOps /\ call'.target = s /\ resp' = 200)
             => /\ "current_submission" \in DOMAIN sessions'[s].user_data
                /\ sessions'[s].user_data["current_submission"] = EmptyDict
                /\ sessions'[s].stage = sessions[s].stage
                /\ sessions'[s].status = sessions[s].status
                /\ verified_data(sessions'[s].user_data) = verified_data(sessions[s].user_data)
          /\ (call'.op \in RejectOps \cup SubmitOps /\ s \in Named(call'))
             => DOMAIN verified_data(sessions'[s].user_data)
                    = DOMAIN verified_data(sessions[s].user_data)]_vars

\* The owner rejected the credentials the user had just submitted: the
\* submission is gone, the stage is still credentials and verified_data has
\* no entry.
C11_Witness ==
    \E s \in DOMAIN sessions :
        /\ call = Call("RejectLogin", sessions[s].agent, s)
        /\ resp = 200
        /\ Len(logs[s]) >= 2
        /\ logs[s][Len(logs[s]) - 1].message = "User submitted credentials"
        /\ sessions[s].user_data["current_submission"] = EmptyDict
        /\ sessions[s].stage = "credentials"
        /\ sessions[s].status = "active"
        /\ DOMAIN verified_data(sessions[s].user_data) = {}

\* The stage whose submission a reject operation is for.
RejectedStage(op) ==
    CASE op = "RejectLogin" -> "credentials"
      [] op = "RejectOtp"   -> "secret_key"
      [] op = "RejectKyc"   -> "kyc"

\* C12: RejectLogin, RejectOtp and RejectKyc called while the staged
\* submission is for another stage, or while nothing is staged, end in a
\* client error and leave the session's staged data and its audit log as
\* they were.
C12_RejectNeedsMatchingSubmission ==
    [][\A s \in DOMAIN sessions :
          ( /\ call'.op \in RejectOps
            /\ call'.target = s
            /\ submission_stage(sessions[s].user_data) # RejectedStage(call'.op) )
          => /\ resp' \in ClientErrors
             /\ sessions'[s].user_data = sessions[s].user_data
             /\ logs' = logs]_vars

\* The accept operation that verifies a stage.
AcceptOpOf(stage) ==
    CASE stage = "credentials" -> "AcceptLogin"
      [] stage = "secret_key"  -> "AcceptOtp"
      [] stage = "kyc"         -> "AcceptKyc"
      [] OTHER                 -> None

\* C13: an entry verified_data[S] comes into being, or changes, only in a
\* successful accept for stage S called by the session's owner or a
\* superuser; no other operation adds or overwrites a verified_data entry.
C13_OnlyAcceptVerifies ==
    [][\A s \in (DOMAIN sessions) \cap (DOMAIN sessions') :
          LET old == verified_data(sessions[s].user_data)
              new == verified_data(sessions'[s].user_data)
          IN  \A S \in DOMAIN new :
                 (S \notin DOMAIN old \/ new[S] # old[S])
                 => /\ call'.op = AcceptOpOf(S)
                    /\ call'.target = s
                    /\ resp' = 200
                    /\ MayManage(s, call'.actor)]_vars

\* C14: once a session's status is completed, failed or terminated, no
\* operation changes its status, stage or staged data; only audit-log
\* entries may still be appended.
C14_TerminalSessionsImmutable ==
    [][\A s \in (DOMAIN sessions) \cap (DOMAIN sessions') :
          sessions[s].status \in TerminalStatuses
          => /\ sessions'[s].status = sessions[s].status
             /\ sessions'[s].stage = sessions[s].stage
             /\ sessions'[s].user_data = sessions[s].user_data]_vars

\* C15: once a session's stage is completed no operation changes it again:
\* completed has no outgoing transition, for Navigate, for the accept
\* operations and for every other operation that writes stage.
C15_CompletedStageIsSink ==
    [][\A s \in (DOMAIN sessions) \cap (DOMAIN sessions') :
          sessions[s].stage = "completed" => sessions'[s].stage = "completed"]_vars

\* C16: on a session holding both a pending submission and verified data,
\* a successful Navigate with clear_data = all leaves the staged-data bag
\* empty; with clear_data = submission, or with clear_data left out, it
\* leaves current_submission empty and verified_data exactly as before;
\* with clear_data = none it leaves both exactly as before.
C16_NavigateClearModes ==
    [][\A s \in DOMAIN sessions, target \in STAGE_CHOICES, clear \in ClearInputs :
          ( /\ Navigate(s, call'.actor, target, clear)
            /\ resp' = 200
            /\ submission_stage(sessions[s].user_data) # None
            /\ verified_data(sessions[s].user_data) # EmptyDict )
          => LET old == sessions[s].user_data
                 new == sessions'[s].user_data
             IN  /\ clear = "all" => new = EmptyDict
                 /\ clear \in {"submission", None}
                    => /\ {"current_submission", "verified_data"} \subseteq DOMAIN new
                       /\ new["current_submission"] = EmptyDict
                       /\ new["verified_data"] = old["verified_data"]
                 /\ clear = "none"
                    => /\ {"current_submission", "verified_data"} \subseteq DOMAIN new
                       /\ new["current_submission"] = old["current_submission"]
                       /\ new["verified_data"] = old["verified_data"]]_vars

\* A navigate has just succeeded on a session that held a submitted secret
\* key beside verified credentials, and left the bag empty.
C16_Witness ==
    \E s \in DOMAIN sessions :
        /\ call = Call("Navigate", "alice", s)
        /\ resp = 200
        /\ Len(logs[s]) >= 3
        /\ logs[s][Len(logs[s]) - 1].message = "User submitted secret key"
        /\ logs[s][Len(logs[s]) - 2].message = "Agent accepted login credentials"
        /\ sessions[s].user_data = EmptyDict

\* C17: Navigate on an active session whose stage is not completed succeeds
\* for every target stage, the current one included, sets stage to the
\* target and makes status completed exactly when the target is completed;
\* when status is not active, or the current stage is completed, it is
\* rejected and stage, status and staged data stay as they were.
C17_NavigateTransitions ==
    [][\A s \in DOMAIN sessions, target \in STAGE_CHOICES, clear \in ClearInputs :
          Navigate(s, call'.actor, target, clear)
          => IF sessions[s].status = "active" /\ sessions[s].stage # "completed"
             THEN /\ resp' = 200
                  /\ sessions'[s].stage = target
                  /\ sessions'[s].status = "completed" <=> target = "completed"
             ELSE /\ resp' \in ClientErrors
                  /\ sessions'[s].stage = sessions[s].stage
                  /\ sessions'[s].status = sessions[s].status
                  /\ sessions'[s].user_data = sessions[s].user_data]_vars

\* A navigate was refused on a session that is active but already at stage
\* completed.
C17_Witness ==
    \E s \in DOMAIN sessions :
        /\ call = Call("Navigate", "alice", s)
        /\ resp = 400
        /\ sessions[s].status = "active"
        /\ sessions[s].stage = "completed"

\* The audit log of s records a successful MarkUnsuccessful.
MarkedUnsuccessful(s) ==
    \E i \in DOMAIN logs[s] : logs[s][i].message = "Session marked as unsuccessful"

\* C18: MarkUnsuccessful succeeds only on an active session, and then sets
\* status = failed and stage = completed and records verification_result
\* with stage_when_failed the stage held just before the call; on a session
\* that is not active it returns an error and changes nothing; and every
\* Navigate called on the session afterwards is rejected.
C18_MarkUnsuccessful ==
    [][\A s \in DOMAIN sessions :
          /\ (call'.op = "MarkUnsuccessful" /\ call'.target = s)
             => IF sessions[s].status = "active"
                THEN /\ resp' = 200
                     /\ sessions'[s].status = "failed"
                     /\ sessions'[s].stage = "completed"
                     /\ sessions'[s].user_data["verification_result"].stage_when_failed
                            = sessions[s].stage
                ELSE /\ resp' \in ClientErrors
                     /\ sessions' = sessions
                     /\ logs' = logs
          /\ (call'.op = "Navigate" /\ call'.target = s /\ MarkedUnsuccessful(s))
             => /\ resp' # 200
                /\ sessions' = sessions]_vars

\* C19: ForceComplete by the owner or a staff user on a session whose status
\* is active answers 200 from whatever stage the session is at and whatever
\* verified_data holds, leaves status = completed and stage = completed and
\* stores a completion_record whose stage_when_completed is the stage the
\* session had; on a session whose status is not active it answers a
\* client error and sessions and logs stay as they were.
C19_ForceComplete ==
    [][\A s \in DOMAIN sessions :
          (/\ call'.op = "ForceComplete" /\ call'.target = s
           /\ IsOwnerOrStaff(sessions[s], call'.actor))
          => IF sessions[s].status = "active"
             THEN /\ resp' = 200
                  /\ s \in DOMAIN sessions'
                  /\ sessions'[s].status = "completed"
                  /\ sessions'[s].stage = "completed"
                  /\ "completion_record" \in DOMAIN sessions'[s].user_data
                  /\ sessions'[s].user_data["completion_record"].stage_when_completed
                        = sessions[s].stage
                  /\ verified_data(sessions'[s].user_data) = verified_data(sessions[s].user_data)
             ELSE /\ resp' \in ClientErrors /\ sessions' = sessions /\ logs' = logs]_vars

\* A session force-completed from stage secret_key with no verified kyc data.
C19_Witness ==
    /\ call.op = "ForceComplete" /\ resp = 200
    /\ call.target \in DOMAIN sessions
    /\ LET user_data == sessions[call.target].user_data
       IN  /\ "completion_record" \in DOMAIN user_data
           /\ user_data["completion_record"].stage_when_completed = "secret_key"
           /\ "kyc" \notin DOMAIN verified_data(user_data)
           /\ sessions[call.target].status = "completed"

\* C20: a successful SessionCreate by agent A adds one session with stage
\* case_id, status active, user_online false and agent A. VerifyCaseID with
\* a case id answers 200 exactly when a session with that case id and status
\* active exists; otherwise it answers a client error and sessions, logs and
\* tokens stay as they were. On success that session has stage credentials
\* and user_online true, its log is one entry longer, every other session
\* and log is untouched, and the one guest token issued names that
\* session's uuid.
C20_CreateThenVerifyCaseId ==
    [][/\ (call'.op = "SessionCreate" /\ resp' = 201)
          => /\ Cardinality(DOMAIN sessions' \ DOMAIN sessions) = 1
             /\ \A s \in DOMAIN sessions' \ DOMAIN sessions :
                   /\ sessions'[s].stage = "case_id"
                   /\ sessions'[s].status = "active"
                   /\ sessions'[s].user_online = FALSE
                   /\ sessions'[s].agent = call'.actor
             /\ \A s \in DOMAIN sessions : sessions'[s] = sessions[s]
       /\ (call'.op = "VerifyCaseID")
          => LET live == {s \in DOMAIN sessions :
                            /\ sessions[s].external_case_id = call'.target
                            /\ sessions[s].status = "active"}
             IN  IF live = {}
                 THEN /\ resp' \in ClientErrors
                      /\ sessions' = sessions /\ logs' = logs /\ tokens' = tokens
                 ELSE /\ resp' = 200
                      /\ Cardinality(live) = 1
                      /\ DOMAIN sessions' = DOMAIN sessions
                      /\ \A s \in live :
                            /\ sessions'[s].stage = "credentials"
                            /\ sessions'[s].user_online = TRUE
                            /\ sessions'[s].status = "active"
                            /\ Len(logs'[s]) = Len(logs[s]) + 1
                            /\ tokens' = tokens \cup {s}
                      /\ \A s \in DOMAIN sessions \ live :
                            sessions'[s] = sessions[s] /\ logs'[s] = logs[s]]_vars

\* The case id of one of two sessions has just been verified: that session is
\* at credentials with the user online and holds a guest token, the other
\* session is still at case_id and no token names it.
C20_Witness ==
    /\ call.op = "VerifyCaseID" /\ resp = 200
    /\ \E s, o \in DOMAIN sessions :
          /\ s # o
          /\ sessions[s].external_case_id = call.target
          /\ sessions[s].stage = "credentials" /\ sessions[s].user_online
          /\ s \in tokens /\ o \notin tokens
          /\ sessions[o].stage = "case_id" /\ sessions[o].status = "active"

\* C21: SubmitCredentials, SubmitSecretKey, StartKyc and SubmitKyc for the
\* case id of an active session answer 200 whatever stage the session is at,
\* leave current_submission naming the stage the operation targets, and
\* leave stage, status and verified_data as they were.
C21_SubmitAtAnyStage ==
    [][\A s \in DOMAIN sessions :
          (/\ call'.op \in {"SubmitCredentials", "SubmitSecretKey", "StartKyc", "SubmitKyc"}
           /\ sessions[s].external_case_id = call'.target
           /\ sessions[s].status = "active")
          => /\ resp' = 200
             /\ s \in DOMAIN sessions'
             /\ submission_stage(sessions'[s].user_data)
                   = (CASE call'.op = "SubmitCredentials" -> "credentials"
                        [] call'.op = "SubmitSecretKey"   -> "secret_key"
                        [] OTHER                          -> "kyc")
             /\ sessions'[s].stage = sessions[s].stage
             /\ sessions'[s].status = sessions[s].status
             /\ verified_data(sessions'[s].user_data) = verified_data(sessions[s].user_data)]_vars

\* C22: a session's stage, status and user_data never change in a step that
\* does not also append the entry to that session's audit log, so no state
\* shows the mutation without its log entry -- also when the request fails
\* between its two writes.
C22_MutationAndLogAreOneUnit ==
    [][\A s \in DOMAIN sessions \cap DOMAIN sessions' :
          (\/ sessions'[s].stage # sessions[s].stage
           \/ sessions'[s].status # sessions[s].status
           \/ sessions'[s].user_data # sessions[s].user_data)
          => Len(logs'[s]) > Len(logs[s])]_vars

C24_FirehoseEventsReachOwner ==
    [][\A i \in DOMAIN published' :
          (/\ published'[i].group = ControlRoom
           /\ published'[i].uuid \in DOMAIN sessions')
          => \E j \in DOMAIN published' :
                /\ published'[j].group = AgentGroup(sessions'[published'[i].uuid].agent)
                /\ published'[j].type = published'[i].type
                /\ published'[j].uuid = published'[i].uuid
                /\ published'[j].what = published'[i].what]_vars

\* C25: when a guest's connection to a session is accepted, the session is
\* marked online and a connected event goes out on control_room and on
\* agent_{owner}; when that connection ends, the session is marked offline
\* and a disconnected event goes out on the same two groups.
C25_GuestConnectionEvents ==
    [][\A x \in DOMAIN sessions :
          LET Told(g, what) ==
                  \E i \in DOMAIN published' :
                      /\ published'[i].group = g
                      /\ published'[i].type = "user_status_update"
                      /\ published'[i].uuid = x
                      /\ published'[i].what = what
          IN  /\ (/\ call'.op = "SessionConnect" /\ call'.target = x
                  /\ call'.token # NoUuid /\ resp' = 101)
                 => /\ sessions'[x].user_online = TRUE
                    /\ Told(ControlRoom, "connected")
                    /\ Told(AgentGroup(sessions[x].agent), "connected")
              /\ (/\ call'.op = "SessionDisconnect" /\ call'.target = x
                  /\ call'.token # NoUuid
                  /\ \E m \in members \ members' : m.token = call'.token)
                 => /\ sessions'[x].user_online = FALSE
                    /\ Told(ControlRoom, "disconnected")
                    /\ Told(AgentGroup(sessions[x].agent), "disconnected")]_vars

\* C26: a connect or disconnect of an authenticated user's socket (an agent
\* or a superuser), on the control channel or on a session's channel, leaves
\* every session's user_online as it was and appends no user_connection
\* entry to any audit log.
C26_AgentSocketsLeaveOnlineFlag ==
    [][(/\ call'.op \in {"ControlConnect", "ControlDisconnect",
                         "SessionConnect", "SessionDisconnect"}
        /\ call'.actor # None /\ call'.token = NoUuid)
       => \A s \in DOMAIN sessions :
             /\ s \in DOMAIN sessions'
             /\ sessions'[s].user_online = sessions[s].user_online
             /\ \A i \in DOMAIN logs'[s] :
                   logs'[s][i].log_type = "user_connection" => i \in DOMAIN logs[s]]_vars

\* C27: a connection attempt that has reached its channel-join, on the
\* control consumer or on the session consumer, eventually leaves it -- joined
\* or closed -- even if the channel layer never answers.
C27_JoinWaitIsBounded ==
    \A i \in 1..MaxInflight :
        (i \in DOMAIN epoch.reqs /\ epoch.reqs[i].pc = "joining")
            ~> ~(i \in DOMAIN epoch.reqs /\ epoch.reqs[i].pc = "joining")

\* C28: a SessionCreate by a staff user that supplies no case id never ends
\* in an error: when the identifier drawn for it has meanwhile been
\* committed by another creation, it draws again and is answered 201 with an
\* identifier of its own.
C28_CreateRetriesOnCollision ==
    [][(/\ call'.op = "SessionCreate" /\ call'.target = NoCase
        /\ is_staff(call'.actor))
       => /\ resp' = 201
          /\ \A s, o \in DOMAIN sessions' :
                sessions'[s].external_case_id = sessions'[o].external_case_id => s = o]_vars

\* C29: generate_unique_case_id makes at most MAX_RETRIES draws, and the
\* identifier it returns -- from a draw or from the fallback -- is the
\* external_case_id of no stored session when it is returned.
C29_GeneratedIdIsUnused ==
    [][\A i \in DOMAIN epoch.reqs \cap DOMAIN epoch'.reqs :
          /\ epoch'.reqs[i].tries <= MAX_RETRIES
          /\ (epoch.reqs[i].pc = "generating" /\ epoch'.reqs[i].pc = "ready")
             => ~\E s \in DOMAIN sessions' :
                    sessions'[s].external_case_id = epoch'.reqs[i].arg]_vars

\* C30: an accept leaves no pending submission behind, and an accept called
\* on a session with no pending submission -- in particular the same accept
\* called again right after it succeeded -- answers a client error and
\* leaves the sessions and their audit logs exactly as they were.
C30_RepeatedAcceptIsRefused ==
    [][\A s \in DOMAIN sessions :
          (call'.op \in AcceptOps /\ call'.target = s)
          => /\ resp' = 200 => submission_stage(sessions'[s].user_data) = None
             /\ submission_stage(sessions[s].user_data) = None
                => /\ resp' \in ClientErrors
                   /\ sessions' = sessions /\ logs' = logs
             /\ (call.op = call'.op /\ call.target = s /\ resp = 200)
                => /\ resp' \in ClientErrors
                   /\ sessions' = sessions /\ logs' = logs]_vars

\* AcceptLogin called again right after it succeeded: refused with 400, the
\* session at secret_key with its verified credentials, the accept logged once
\* and last.
C30_Witness ==
    /\ call.op = "AcceptLogin" /\ resp = 400
    /\ call.target \in DOMAIN sessions
    /\ sessions[call.target].stage = "secret_key"
    /\ "credentials" \in DOMAIN verified_data(sessions[call.target].user_data)
    /\ LET log == logs[call.target]
       IN  /\ log # << >>
           /\ log[Len(log)].message = "Agent accepted login credentials"
           /\ Cardinality({i \in DOMAIN log :
                              log[i].message = "Agent accepted login credentials"}) = 1

C32_OwnerNeverChanges ==
    [][\A s \in DOMAIN sessions \cap DOMAIN sessions' :
         sessions'[s].agent = sessions[s].agent]_vars

\* C33: every operation that changes a session's stage, status or staged
\* data appends at least one entry to that session's audit log in the same
\* operation.
C33_EveryChangeIsLogged ==
    [][\A s \in DOMAIN sessions \cap DOMAIN sessions' :
         (\/ sessions'[s].stage # sessions[s].stage
          \/ sessions'[s].status # sessions[s].status
          \/ sessions'[s].user_data # sessions[s].user_data)
         => /\ s \in DOMAIN logs \cap DOMAIN logs'
            /\ Len(logs'[s]) > Len(logs[s])]_vars

\* C34: a terminate_session or redirect_user command received on a control
\* connection touches the named session (status, audit log, user channel)
\* only when the sending agent owns the session or is a superuser; a command
\* from any other agent leaves the session, its log and its user channel
\* untouched.
C34_ControlCommandsNeedOwnership ==
    [][\A s \in DOMAIN sessions :
          ( /\ call'.op \in ControlCommands
            /\ call'.target = s
            /\ ~MayManage(s, call'.actor) )
          => /\ sessions' = sessions
             /\ logs' = logs
             /\ \A i \in 1..Len(published') :
                   published'[i].group # SessionGroup(s)]_vars

\* C35: when two accept requests for the same pending submission of a
\* session run concurrently, exactly one takes effect: the one that writes
\* after the other has accepted the submission returns an error, appends no
\* audit entry, changes nothing and sends no accept command.
C35_ConcurrentAcceptTakesEffectOnce ==
    [][\A j \in DOMAIN epoch.reqs :
          ( /\ AcceptWrite(j)
            /\ \E i \in DOMAIN epoch.reqs \ {j} :
                  /\ epoch.reqs[i].op = epoch.reqs[j].op
                  /\ epoch.reqs[i].uuid = epoch.reqs[j].uuid
                  /\ epoch.reqs[i].pc = "done"
            /\ submission_stage(sessions[epoch.reqs[j].uuid].user_data)
                  # ExpectedStage(epoch.reqs[j].op) )
          => /\ resp' \in ClientErrors
             /\ sessions' = sessions
             /\ logs' = logs
             /\ published' = << >>]_vars

\* C36: the operations that are not meant to change stage or status (the
\* submit operations, the reject operations, SaveNotes, guest connect and
\* disconnect) never change them, even when another operation on the same
\* session commits a stage or status between their read and their write.
C36_StaleWritesKeepStageAndStatus ==
    [][\A s \in DOMAIN sessions \cap DOMAIN sessions' :
          call'.op \in SubmitOps \cup {"RejectLogin", "RejectOtp", "RejectKyc", "SaveNotes",
                                       "SessionConnect", "SessionDisconnect"}
          => /\ sessions'[s].stage = sessions[s].stage
             /\ sessions'[s].status = sessions[s].status]_vars

\* C37: a session-socket connection attempt that is rejected (unknown
\* session, agent who does not own it, missing or mismatched guest
\* credential) leaves the session rows and the audit logs unchanged and
\* publishes no event, in connect and in the disconnect handling that runs
\* after the rejection.
C37_RejectedConnectHasNoEffect ==
    [][/\ (call'.op = "SessionConnect" /\ resp' \in {1000, 4003})
          => sessions' = sessions /\ logs' = logs /\ published' = << >>
       /\ \A x \in SessionIds :
            SessionDisconnectRefused(x)
            => sessions' = sessions /\ logs' = logs /\ published' = << >>]_vars

\* C38: after any sequence of guest connects and disconnects on a session,
\* several guest sockets open at the same time included, online is false
\* only if no guest socket is connected to that session.
C38_OfflineMeansNoGuestSocket ==
    \A s \in DOMAIN sessions :
        sessions[s].user_online = FALSE
        => ~ \E m \in members : m.group = SessionGroup(s) /\ m.token # NoUuid

\* C39: in every reachable state stage and status agree on completion: a
\* session whose status is completed is at stage completed, and a session at
\* stage completed has status completed, failed or terminated, never active.
C39_StageAndStatusAgreeOnCompletion ==
    \A s \in DOMAIN sessions :
        /\ sessions[s].status = "completed" => sessions[s].stage = "completed"
        /\ sessions[s].stage = "completed" => sessions[s].status \in TerminalStatuses

\* C40: no unauthenticated user operation moves an active session's stage
\* backwards: VerifyCaseID changes the stage only from case_id to
\* credentials and leaves a session at credentials, secret_key or kyc where
\* it is, and the submit operations never change the stage.
C40_UserOperationsNeverMoveBack ==
    [][\A s \in DOMAIN sessions \cap DOMAIN sessions' :
          sessions[s].status = "active"
          => /\ (call'.op = "VerifyCaseID" /\ sessions'[s].stage # sessions[s].stage)
                => /\ sessions[s].stage = "case_id"
                   /\ sessions'[s].stage = "credentials"
             /\ call'.op \in SubmitOps
                => sessions'[s].stage = sessions[s].stage]_vars

====
